---- MODULE Spec2Model ----
(***************************************************************************)
(* Cross-chain credential relay: the Issuer contract on the source ledger, *)
(* the Wormhole core bridge, the Mirror contract on the destination ledger *)
(* and the off-chain listener that relays attestations (VAAs).             *)
(***************************************************************************)
EXTENDS Integers, Sequences, FiniteSets, Bags, TLC

\* ------------------------------------------------------------------------
\* Identities and inputs
\* ------------------------------------------------------------------------

\* address(0), the default value of every mapping(bytes32 => address)
ZeroAddress == "0x0"

\* externally owned accounts that send transactions (msg.sender)
Callers == {"owner", "user"}

\* initialOwner of the Issuer and of the Mirror (Ownable)
IssuerOwner == "owner"
MirrorOwner == "owner"

\* address of the deployed Issuer contract, and of some other contract
IssuerAddress == "issuerContract"
OtherAddress == "otherContract"
MirrorAddress == "mirrorContract"

\* content identifiers (IPFS CIDs) and content hashes given to the Issuer
Cids == {"QmAAA", "QmBBB"}
ContentHashes == {"H1", "H2"}

\* keccak256 is collision free on the inputs of the model
keccak256(x) == <<"keccak256", x>>

CidHashes == {keccak256(c) : c \in Cids}

\* bytes32(uint256(uint160(addr))): twelve zero bytes, then the address
AddressToBytes32(addr) == <<"00", addr>>

\* longest batch given to batchIssueCredentials: it can name every identifier
\* once, or repeat one
MaxBatch == Cardinality(Cids)

\* the length bound of a batch
MaxBatchSize == 50

\* wormhole.messageFee(), in units of the bridge's fee
MessageFee == 1

\* msg.value of an issueCredential call
Values == {0, MessageFee - 1, MessageFee, MessageFee + 1}

SOURCE_CHAIN_ID == 10002
OTHER_CHAIN_ID == 10007

RECURSIVE SeqsUpTo(_, _)
SeqsUpTo(S, n) ==
    IF n = 0 THEN {<<>>}
    ELSE LET shorter == SeqsUpTo(S, n - 1)
         IN  shorter \cup {Append(s, x) : s \in {t \in shorter : Len(t) = n - 1}, x \in S}

CidArrays == SeqsUpTo(Cids, MaxBatch)
HashArrays == SeqsUpTo(ContentHashes, MaxBatch)

\* ------------------------------------------------------------------------
\* State
\* ------------------------------------------------------------------------
VARIABLES
    issuer,      \* storage of the Issuer contract
    wormhole,    \* the core bridge on the source ledger: next sequence of the
                 \* Issuer emitter and the messages it published
    srcLog,      \* event log of the source ledger, in order
    issuance,    \* the successful issuances: (cid, contentHash, issuer)
    mirror,      \* storage of the Mirror contract
    dstLog,      \* events of the destination ledger (a bag)
    last,        \* the last ledger call and its outcome ("ok" or revert reason)
    srcHead,     \* number of the newest block of the source ledger
    signed,      \* the sequences whose attestation the Attestation Service serves
    relayer,     \* the listener processes: position and local variables of each
    upload,      \* the upload gateway: each POST /upload and where its handler is
    verifier     \* the verifier page: the on-chain check it runs and its outcome

srcVars == <<issuer, wormhole, srcLog, issuance>>
dstVars == <<mirror, dstLog>>
offChainVars == <<srcHead, signed, relayer, upload, verifier>>

\* ------------------------------------------------------------------------
\* Wormhole core bridge (IWormhole)
\* ------------------------------------------------------------------------

\* the VM fields the Mirror reads; payload = abi.encode(issuer, cidHash)
MakeVM(chain, emitter, seq, payload) ==
    [emitterChainId |-> chain, emitterAddress |-> emitter,
     sequence |-> seq, payload |-> payload]

\* publishMessage called by the Issuer: the message gets the emitter's next
\* sequence number, which is returned
publishMessage(w, payload) ==
    LET vm == MakeVM(SOURCE_CHAIN_ID, AddressToBytes32(IssuerAddress), w.sequence, payload)
    IN  [sequence |-> w.sequence,
         w |-> [sequence |-> w.sequence + 1, published |-> w.published \cup {vm}]]

\* signatures of an encoded VM: two byte-distinct quorums of the guardian
\* set, or bytes that do not verify
GoodSigs == {"quorumA", "quorumB"}
Sigs == GoodSigs \cup {"bad"}

\* is the VM one of the Issuer emitter on the source chain
FromIssuer(vm) ==
    /\ vm.emitterChainId = SOURCE_CHAIN_ID
    /\ vm.emitterAddress = AddressToBytes32(IssuerAddress)

\* parseAndVerifyVM: the decoded VM and whether the guardians signed it.  The
\* guardians sign only published messages; any other emitter may publish any
\* payload.
parseAndVerifyVM(w, vaa) ==
    [vm |-> vaa.vm,
     valid |-> /\ vaa.sig \in GoodSigs
               /\ (FromIssuer(vaa.vm) => vaa.vm \in w.published)]

Payloads == Callers \X CidHashes

\* messages with the Issuer's provenance, published or not, and messages other
\* emitters publish: another contract of the source chain, and a contract of
\* another chain that has the Issuer's address
IssuerVMs == {MakeVM(SOURCE_CHAIN_ID, AddressToBytes32(IssuerAddress), s, p) :
                 s \in 0 .. (Cardinality(Cids) - 1), p \in Payloads}

ForeignVMs == {MakeVM(pr[1], pr[2], 0, p) :
                 pr \in {<<SOURCE_CHAIN_ID, AddressToBytes32(OtherAddress)>>,
                         <<OTHER_CHAIN_ID, AddressToBytes32(IssuerAddress)>>,
                         <<OTHER_CHAIN_ID, AddressToBytes32(OtherAddress)>>},
                 p \in {"user"} \X CidHashes}

VMs == IssuerVMs \cup ForeignVMs

\* the byte strings that can be submitted to the Mirror
Vaas == [vm : VMs, sig : Sigs]

\* ------------------------------------------------------------------------
\* Source ledger: the Issuer contract
\* ------------------------------------------------------------------------

\* the state a source-ledger transaction reads and writes; a transaction that
\* reverts leaves all of it as it was
SrcState == [issuer |-> issuer, wormhole |-> wormhole, log |-> srcLog, issuance |-> issuance]

Ok(st) == [err |-> "ok", st |-> st]
Revert(reason, st) == [err |-> reason, st |-> st]

\* events of a transaction are logged in the block being built, srcHead + 1
PendingBlock == srcHead + 1

\* what a successful issuance writes
\* variant of the writes of an issuance: the message is published, the
\* sequence the bridge returned is not announced
RecordIssuance_NoDiscoveryEvent(st, sender, cid, contentHash, blk) ==
    LET cidHash == keccak256(cid)
        pm == publishMessage(st.wormhole, <<sender, cidHash>>)
    IN  Ok([issuer |-> [st.issuer EXCEPT !.contentHashIssued[contentHash] = TRUE,
                                         !.cidIssuer[cidHash] = sender],
            wormhole |-> pm.w,
            log |-> st.log \o
                << [name |-> "LogCredentialIssued", block |-> blk,
                    issuer |-> sender, cid |-> cid, cidHash |-> cidHash] >>,
            issuance |-> st.issuance \cup
                {[cid |-> cid, contentHash |-> contentHash, issuer |-> sender]}])

RecordIssuance(st, sender, cid, contentHash, blk) ==
    LET cidHash == keccak256(cid)
        pm == publishMessage(st.wormhole, <<sender, cidHash>>)
    IN  Ok([issuer |-> [st.issuer EXCEPT !.contentHashIssued[contentHash] = TRUE,
                                         !.cidIssuer[cidHash] = sender],
            wormhole |-> pm.w,
            log |-> st.log \o
                << [name |-> "LogCredentialIssued", block |-> blk,
                    issuer |-> sender, cid |-> cid, cidHash |-> cidHash],
                   [name |-> "CrossChainMessageEmitted", block |-> blk,
                    sequence |-> pm.sequence] >>,
            issuance |-> st.issuance \cup
                {[cid |-> cid, contentHash |-> contentHash, issuer |-> sender]}])

\* _issueSingleCredential without the check of the identifier
issueSingleCredential_NoCidCheck(st, sender, cid, contentHash, blk) ==
    IF st.issuer.contentHashIssued[contentHash]
    THEN Revert("Credential for this content already issued", st)
    ELSE RecordIssuance(st, sender, cid, contentHash, blk)

\* _issueSingleCredential without the check of the content hash
issueSingleCredential_NoContentCheck(st, sender, cid, contentHash, blk) ==
    IF st.issuer.cidIssuer[keccak256(cid)] # ZeroAddress
    THEN Revert("Credential already issued for this CID", st)
    ELSE RecordIssuance(st, sender, cid, contentHash, blk)

\* _issueSingleCredential with the two checks in the other order
issueSingleCredential_CidCheckFirst(st, sender, cid, contentHash, blk) ==
    IF st.issuer.cidIssuer[keccak256(cid)] # ZeroAddress
    THEN Revert("Credential already issued for this CID", st)
    ELSE IF st.issuer.contentHashIssued[contentHash]
    THEN Revert("Credential for this content already issued", st)
    ELSE RecordIssuance(st, sender, cid, contentHash, blk)

issueSingleCredential(st, sender, cid, contentHash, blk) ==
    LET cidHash == keccak256(cid) IN
    IF st.issuer.contentHashIssued[contentHash]
    THEN Revert("Credential for this content already issued", st)
    ELSE IF st.issuer.cidIssuer[cidHash] # ZeroAddress
    THEN Revert("Credential already issued for this CID", st)
    ELSE RecordIssuance(st, sender, cid, contentHash, blk)

issueCredential(st, sender, cid, contentHash, value, blk) ==
    IF value < MessageFee
    THEN Revert("Insufficient value for message fee", st)
    ELSE issueSingleCredential(st, sender, cid, contentHash, blk)

\* the admission checks with the size bound one too small
batchAdmission_BelowBound(nCids, nHashes, value) ==
    IF ~(nCids > 0) THEN "Empty CIDs array"
    ELSE IF ~(nCids < MaxBatchSize) THEN "Too many CIDs in batch"
    ELSE IF nCids # nHashes THEN "CIDs and content hashes arrays must have same length"
    ELSE IF ~(value >= MessageFee * nCids) THEN "Insufficient value for batch message fees"
    ELSE "ok"

\* the checks of batchIssueCredentials made before any pair is processed
batchAdmission(nCids, nHashes, value) ==
    IF ~(nCids > 0) THEN "Empty CIDs array"
    ELSE IF ~(nCids <= MaxBatchSize) THEN "Too many CIDs in batch"
    ELSE IF nCids # nHashes THEN "CIDs and content hashes arrays must have same length"
    ELSE IF ~(value >= MessageFee * nCids) THEN "Insufficient value for batch message fees"
    ELSE "ok"

\* the loop of batchIssueCredentials skipping a failing pair instead of
\* reverting
RECURSIVE batchLoop_SkipFailed(_, _, _, _, _, _)
batchLoop_SkipFailed(st, sender, cids, contentHashes, i, blk) ==
    IF i > Len(cids) THEN Ok(st)
    ELSE LET r == issueSingleCredential(st, sender, cids[i], contentHashes[i], blk) IN
         batchLoop_SkipFailed(IF r.err # "ok" THEN st ELSE r.st,
                              sender, cids, contentHashes, i + 1, blk)

\* the for loop of batchIssueCredentials from index i on; the first failing
\* pair reverts the transaction
RECURSIVE batchLoop(_, _, _, _, _, _)
batchLoop(st, sender, cids, contentHashes, i, blk) ==
    IF i > Len(cids) THEN Ok(st)
    ELSE LET r == issueSingleCredential(st, sender, cids[i], contentHashes[i], blk) IN
         IF r.err # "ok" THEN r
         ELSE batchLoop(r.st, sender, cids, contentHashes, i + 1, blk)

batchIssueCredentials(st, sender, cids, contentHashes, value, blk) ==
    LET adm == batchAdmission(Len(cids), Len(contentHashes), value) IN
    IF adm # "ok" THEN Revert(adm, st)
    ELSE batchLoop(st, sender, cids, contentHashes, 1, blk)

\* revokeCredential of the Issuer without the check that the credential is
\* not yet revoked
issuerRevokeCredential_NoRevokedCheck(st, sender, cid, blk) ==
    LET cidHash == keccak256(cid) IN
    IF sender # IssuerOwner THEN Revert("OwnableUnauthorizedAccount", st)
    ELSE IF ~(st.issuer.cidIssuer[cidHash] # ZeroAddress)
    THEN Revert("Credential does not exist", st)
    ELSE Ok([st EXCEPT !.issuer.isRevoked[cidHash] = TRUE,
                       !.log = Append(@, [name |-> "CredentialRevoked", block |-> blk,
                                          cidHash |-> cidHash])])

\* revokeCredential of the Issuer that publishes the revocation on the bridge
issuerRevokeCredential_Publishes(st, sender, cid, blk) ==
    LET cidHash == keccak256(cid)
        pm == publishMessage(st.wormhole, <<sender, cidHash>>)
    IN
    IF sender # IssuerOwner THEN Revert("OwnableUnauthorizedAccount", st)
    ELSE IF ~(st.issuer.cidIssuer[cidHash] # ZeroAddress)
    THEN Revert("Credential does not exist", st)
    ELSE IF st.issuer.isRevoked[cidHash]
    THEN Revert("Credential already revoked", st)
    ELSE Ok([st EXCEPT !.issuer.isRevoked[cidHash] = TRUE,
                       !.wormhole = pm.w,
                       !.log = Append(@, [name |-> "CredentialRevoked", block |-> blk,
                                          cidHash |-> cidHash])])

\* revokeCredential of the Issuer that deletes the record it revokes
issuerRevokeCredential_FreesIdentifier(st, sender, cid, blk) ==
    LET cidHash == keccak256(cid) IN
    IF sender # IssuerOwner THEN Revert("OwnableUnauthorizedAccount", st)
    ELSE IF ~(st.issuer.cidIssuer[cidHash] # ZeroAddress)
    THEN Revert("Credential does not exist", st)
    ELSE IF st.issuer.isRevoked[cidHash]
    THEN Revert("Credential already revoked", st)
    ELSE Ok([st EXCEPT !.issuer.isRevoked[cidHash] = TRUE,
                       !.issuer.cidIssuer[cidHash] = ZeroAddress,
                       !.log = Append(@, [name |-> "CredentialRevoked", block |-> blk,
                                          cidHash |-> cidHash])])

issuerRevokeCredential(st, sender, cid, blk) ==
    LET cidHash == keccak256(cid) IN
    IF sender # IssuerOwner THEN Revert("OwnableUnauthorizedAccount", st)
    ELSE IF ~(st.issuer.cidIssuer[cidHash] # ZeroAddress)
    THEN Revert("Credential does not exist", st)
    ELSE IF st.issuer.isRevoked[cidHash]
    THEN Revert("Credential already revoked", st)
    ELSE Ok([st EXCEPT !.issuer.isRevoked[cidHash] = TRUE,
                       !.log = Append(@, [name |-> "CredentialRevoked", block |-> blk,
                                          cidHash |-> cidHash])])

\* setMirrorContract without onlyOwner
setMirrorContract_AnyCaller(st, sender, targetMirror) ==
    IF ~(targetMirror # ZeroAddress)
    THEN Revert("Cannot set mirror to the zero address", st)
    ELSE Ok([st EXCEPT !.issuer.targetMirrorContract = targetMirror])

\* setMirrorContract without the check of the target
setMirrorContract_NoTargetCheck(st, sender, targetMirror) ==
    IF sender # IssuerOwner THEN Revert("OwnableUnauthorizedAccount", st)
    ELSE Ok([st EXCEPT !.issuer.targetMirrorContract = targetMirror])

setMirrorContract(st, sender, targetMirror) ==
    IF sender # IssuerOwner THEN Revert("OwnableUnauthorizedAccount", st)
    ELSE IF ~(targetMirror # ZeroAddress)
    THEN Revert("Cannot set mirror to the zero address", st)
    ELSE Ok([st EXCEPT !.issuer.targetMirrorContract = targetMirror])

\* a source-ledger transaction that keeps the writes made before a revert
SrcTransaction_KeepWrites(op, r) ==
    /\ last' = [op |-> op, result |-> r.err]
    /\ issuer' = r.st.issuer
    /\ wormhole' = r.st.wormhole
    /\ srcLog' = r.st.log
    /\ issuance' = r.st.issuance

\* a source-ledger transaction: its writes are kept only when it succeeds
SrcTransaction(op, r) ==
    /\ last' = [op |-> op, result |-> r.err]
    /\ IF r.err = "ok"
       THEN /\ issuer' = r.st.issuer
            /\ wormhole' = r.st.wormhole
            /\ srcLog' = r.st.log
            /\ issuance' = r.st.issuance
       ELSE UNCHANGED srcVars

\* ------------------------------------------------------------------------
\* Destination ledger: the Mirror contract
\* ------------------------------------------------------------------------

DstState == [mirror |-> mirror, log |-> dstLog]

\* trustedSourceContract, set by the constructor from the Issuer's address
trustedSourceContract == AddressToBytes32(IssuerAddress)

\* variant of storeRecord: a record that exists is written again, not revoked
storeRecord_ClearsRevocation(st, vaa) ==
    LET vm == vaa.vm
        originalIssuer == vm.payload[1]
        cidHash == vm.payload[2]
    IN  [mirror |-> [st.mirror EXCEPT !.cidIssuer[cidHash] = originalIssuer,
                                      !.isRevoked[cidHash] = FALSE],
         log |-> st.log (+) SetToBag({[name |-> "CredentialReceived",
                                       originalIssuer |-> originalIssuer,
                                       cidHash |-> cidHash]})]

\* variant of markProcessed: only the latest digest is remembered
markProcessed_KeepsLatest(st, vaa) ==
    [st EXCEPT !.mirror.processedVaas = {keccak256(vaa)}]

\* processedVaas[vaaHash] = true
markProcessed(st, vaa) ==
    [st EXCEPT !.mirror.processedVaas = @ \cup {keccak256(vaa)}]

\* the payload is decoded, the record written and CredentialReceived emitted
storeRecord(st, vaa) ==
    LET vm == vaa.vm
        originalIssuer == vm.payload[1]
        cidHash == vm.payload[2]
    IN  [mirror |-> [st.mirror EXCEPT !.cidIssuer[cidHash] = originalIssuer],
         log |-> st.log (+) SetToBag({[name |-> "CredentialReceived",
                                       originalIssuer |-> originalIssuer,
                                       cidHash |-> cidHash]})]

\* the Mirror's materialization of a verified message: the digest is marked,
\* then the record is stored
Materialize(st, vaa) == Ok(storeRecord(markProcessed(st, vaa), vaa))

\* receiveAndVerifyVAA without the replay guard
receiveAndVerifyVAA_NoReplayGuard(st, w, vaa) ==
    LET pv == parseAndVerifyVM(w, vaa) IN
    IF ~pv.valid THEN Revert("Invalid VAA", st)
    ELSE IF ~(pv.vm.emitterChainId = SOURCE_CHAIN_ID)
    THEN Revert("Invalid source chain", st)
    ELSE IF ~(pv.vm.emitterAddress = trustedSourceContract)
    THEN Revert("Untrusted source contract", st)
    ELSE Materialize(st, vaa)

\* receiveAndVerifyVAA without the check of the emitter address
receiveAndVerifyVAA_NoEmitterCheck(st, w, vaa) ==
    LET pv == parseAndVerifyVM(w, vaa) IN
    IF ~pv.valid THEN Revert("Invalid VAA", st)
    ELSE IF ~(pv.vm.emitterChainId = SOURCE_CHAIN_ID)
    THEN Revert("Invalid source chain", st)
    ELSE IF keccak256(vaa) \in st.mirror.processedVaas
    THEN Revert("VAA already processed", st)
    ELSE Materialize(st, vaa)

\* receiveAndVerifyVAA without the check of the source chain id
receiveAndVerifyVAA_NoChainCheck(st, w, vaa) ==
    LET pv == parseAndVerifyVM(w, vaa) IN
    IF ~pv.valid THEN Revert("Invalid VAA", st)
    ELSE IF ~(pv.vm.emitterAddress = trustedSourceContract)
    THEN Revert("Untrusted source contract", st)
    ELSE IF keccak256(vaa) \in st.mirror.processedVaas
    THEN Revert("VAA already processed", st)
    ELSE Materialize(st, vaa)

\* receiveAndVerifyVAA with the emitter checked before the source chain
receiveAndVerifyVAA_EmitterCheckFirst(st, w, vaa) ==
    LET pv == parseAndVerifyVM(w, vaa) IN
    IF ~pv.valid THEN Revert("Invalid VAA", st)
    ELSE IF ~(pv.vm.emitterAddress = trustedSourceContract)
    THEN Revert("Untrusted source contract", st)
    ELSE IF ~(pv.vm.emitterChainId = SOURCE_CHAIN_ID)
    THEN Revert("Invalid source chain", st)
    ELSE IF keccak256(vaa) \in st.mirror.processedVaas
    THEN Revert("VAA already processed", st)
    ELSE Materialize(st, vaa)

\* w is the bridge state parseAndVerifyVM reads (the guardians' knowledge of
\* the published messages)
receiveAndVerifyVAA(st, w, vaa) ==
    LET pv == parseAndVerifyVM(w, vaa)
        vm == pv.vm
        vaaHash == keccak256(vaa)
    IN
    IF ~pv.valid THEN Revert("Invalid VAA", st)
    ELSE IF ~(vm.emitterChainId = SOURCE_CHAIN_ID)
    THEN Revert("Invalid source chain", st)
    ELSE IF ~(vm.emitterAddress = trustedSourceContract)
    THEN Revert("Untrusted source contract", st)
    ELSE IF vaaHash \in st.mirror.processedVaas
    THEN Revert("VAA already processed", st)
    ELSE Materialize(st, vaa)

\* revokeCredential of the Mirror that also forgets the digests of the
\* attestations of the revoked identifier
mirrorRevokeCredential_ForgetsDigests(st, sender, cid) ==
    LET cidHash == keccak256(cid) IN
    IF sender # MirrorOwner THEN Revert("OwnableUnauthorizedAccount", st)
    ELSE IF ~(st.mirror.cidIssuer[cidHash] # ZeroAddress)
    THEN Revert("Credential does not exist", st)
    ELSE IF st.mirror.isRevoked[cidHash]
    THEN Revert("Credential already revoked", st)
    ELSE Ok([mirror |-> [st.mirror EXCEPT
                            !.isRevoked[cidHash] = TRUE,
                            !.processedVaas = {dg \in @ : dg[2].vm.payload[2] # cidHash}],
             log |-> st.log (+) SetToBag({[name |-> "CredentialRevoked",
                                           cidHash |-> cidHash]})])

\* revokeCredential of the Mirror without the check that the record exists
mirrorRevokeCredential_NoExistenceCheck(st, sender, cid) ==
    LET cidHash == keccak256(cid) IN
    IF sender # MirrorOwner THEN Revert("OwnableUnauthorizedAccount", st)
    ELSE IF st.mirror.isRevoked[cidHash]
    THEN Revert("Credential already revoked", st)
    ELSE Ok([mirror |-> [st.mirror EXCEPT !.isRevoked[cidHash] = TRUE],
             log |-> st.log (+) SetToBag({[name |-> "CredentialRevoked",
                                           cidHash |-> cidHash]})])

mirrorRevokeCredential(st, sender, cid) ==
    LET cidHash == keccak256(cid) IN
    IF sender # MirrorOwner THEN Revert("OwnableUnauthorizedAccount", st)
    ELSE IF ~(st.mirror.cidIssuer[cidHash] # ZeroAddress)
    THEN Revert("Credential does not exist", st)
    ELSE IF st.mirror.isRevoked[cidHash]
    THEN Revert("Credential already revoked", st)
    ELSE Ok([mirror |-> [st.mirror EXCEPT !.isRevoked[cidHash] = TRUE],
             log |-> st.log (+) SetToBag({[name |-> "CredentialRevoked",
                                           cidHash |-> cidHash]})])

\* a destination-ledger transaction: its writes are kept only when it succeeds
DstTransaction(op, r) ==
    /\ last' = [op |-> op, result |-> r.err]
    /\ IF r.err = "ok"
       THEN /\ mirror' = r.st.mirror
            /\ dstLog' = r.st.log
       ELSE UNCHANGED dstVars

\* ------------------------------------------------------------------------
\* Ledger transactions sent by any account
\* ------------------------------------------------------------------------

IssueCredential(sender, cid, contentHash, value) ==
    /\ SrcTransaction("issueCredential",
                      issueCredential(SrcState, sender, cid, contentHash, value, PendingBlock))
    /\ UNCHANGED <<dstVars, offChainVars>>

BatchIssueCredentials(sender, cids, contentHashes, value) ==
    /\ SrcTransaction("batchIssueCredentials",
                      batchIssueCredentials(SrcState, sender, cids, contentHashes, value,
                                            PendingBlock))
    /\ UNCHANGED <<dstVars, offChainVars>>

IssuerRevokeCredential(sender, cid) ==
    /\ SrcTransaction("Issuer.revokeCredential",
                      issuerRevokeCredential(SrcState, sender, cid, PendingBlock))
    /\ UNCHANGED <<dstVars, offChainVars>>

SetMirrorContract(sender, targetMirror) ==
    /\ SrcTransaction("setMirrorContract", setMirrorContract(SrcState, sender, targetMirror))
    /\ UNCHANGED <<dstVars, offChainVars>>

ReceiveAndVerifyVAA(vaa) ==
    /\ DstTransaction("receiveAndVerifyVAA", receiveAndVerifyVAA(DstState, wormhole, vaa))
    /\ UNCHANGED <<srcVars, offChainVars>>

MirrorRevokeCredential(sender, cid) ==
    /\ DstTransaction("Mirror.revokeCredential", mirrorRevokeCredential(DstState, sender, cid))
    /\ UNCHANGED <<srcVars, offChainVars>>

\* ------------------------------------------------------------------------
\* The listener (relayer)
\* ------------------------------------------------------------------------

\* the listener processes that may run against the same pair of contracts
Relayers == {"r1", "r2"}

\* newest block of the source ledger in the model
MaxBlock == 2

\* attempts of fetchVAAWithRetry (maxAttempts) in the relay specifications;
\* the listener's value is 60
RelayAttempts == 2

WORMHOLE_CHAIN_ID_SEPOLIA == 10002

NoVaa == [vm |-> "none", sig |-> "none"]

\* the outcome the listener logged in its latest step, if that step ended a
\* poll or the processing of a sequence: the sequence it is about and the
\* message
NoSequence == <<"none", 0>>
NoNote == [seq |-> NoSequence, message |-> ""]

\* polls is the number of calls of pollAndReschedule that are due: the first
\* one made by main, later the one setTimeout holds
StoppedRelayer ==
    [pc |-> "stopped", lastCheckedBlock |-> 0, latestBlock |-> 0, events |-> <<>>,
     idx |-> 0, currentlyProcessing |-> {}, attempt |-> 0, waits |-> 0,
     vaaBytes |-> NoVaa, note |-> NoNote, ret |-> "none", polls |-> 0]

\* "0x" + address.slice(2).padStart(64, "0")
getEmitterAddressEth(address) == <<"00", address>>

\* sequence.toString(), and the number the Attestation Service reads from it
toString(n) == <<"dec", n>>
parseSequence(id) == id[2]

\* issuerContract.queryFilter("CrossChainMessageEmitted", fromBlock, toBlock):
\* the sequence ids of the events of these blocks, in log order
RECURSIVE queryFilter(_, _, _)
queryFilter(log, fromBlock, toBlock) ==
    IF log = <<>> THEN <<>>
    ELSE LET e == Head(log)
             rest == queryFilter(Tail(log), fromBlock, toBlock)
         IN  IF /\ e.name = "CrossChainMessageEmitted"
                /\ fromBlock <= e.block
                /\ e.block <= toBlock
             THEN <<toString(e.sequence)>> \o rest
             ELSE rest

\* the Attestation Service: the signed VAA of (chainId, emitterAddress,
\* sequence), if the guardians have signed that message; the set is empty
\* while it is "not yet available"
AttestationService(chainId, emitterAddress, sequenceId) ==
    {[vm |-> vm, sig |-> "quorumA"] :
        vm \in {m \in wormhole.published :
                   /\ m.emitterChainId = chainId
                   /\ m.emitterAddress = emitterAddress
                   /\ m.sequence = parseSequence(sequenceId)
                   /\ m.sequence \in signed}}

\* the loop over the events that leaves the cursor where it was
RECURSIVE processFrom_KeepCursor(_, _)
processFrom_KeepCursor(rs, i) ==
    IF i > Len(rs.events)
    THEN [rs EXCEPT !.pc = "idle", !.polls = @ + 1,
                    !.events = <<>>, !.idx = 0, !.attempt = 0, !.waits = 0,
                    !.vaaBytes = NoVaa]
    ELSE IF rs.events[i] \in rs.currentlyProcessing
    THEN processFrom_KeepCursor(rs, i + 1)
    ELSE [rs EXCEPT !.pc = "fetching", !.idx = i, !.attempt = 1, !.waits = 0,
                    !.vaaBytes = NoVaa,
                    !.currentlyProcessing = @ \cup {rs.events[i]}]

\* variant of processFrom: after the last event the cursor moves to the
\* newest block, not to the head the poll had read
RECURSIVE processFrom_CursorToNewestBlock(_, _)
processFrom_CursorToNewestBlock(rs, i) ==
    IF i > Len(rs.events)
    THEN [rs EXCEPT !.pc = "idle", !.lastCheckedBlock = srcHead,
                    !.polls = @ + 1,
                    !.events = <<>>, !.idx = 0, !.attempt = 0, !.waits = 0,
                    !.vaaBytes = NoVaa]
    ELSE IF rs.events[i] \in rs.currentlyProcessing
    THEN processFrom_CursorToNewestBlock(rs, i + 1)
    ELSE [rs EXCEPT !.pc = "fetching", !.idx = i, !.attempt = 1, !.waits = 0,
                    !.vaaBytes = NoVaa,
                    !.currentlyProcessing = @ \cup {rs.events[i]}]

\* the loop over the events from index i on, up to the first await: an event
\* whose sequence is in flight is skipped; the first other one is added to
\* currentlyProcessing and its first fetch is sent.  After the last event the
\* cursor moves to the scanned head and the next poll is scheduled.
RECURSIVE processFrom(_, _)
processFrom(rs, i) ==
    IF i > Len(rs.events)
    THEN [rs EXCEPT !.pc = "idle", !.lastCheckedBlock = rs.latestBlock,
                    !.polls = @ + 1,
                    !.events = <<>>, !.idx = 0, !.attempt = 0, !.waits = 0,
                    !.vaaBytes = NoVaa]
    ELSE IF rs.events[i] \in rs.currentlyProcessing
    THEN processFrom(rs, i + 1)
    ELSE [rs EXCEPT !.pc = "fetching", !.idx = i, !.attempt = 1, !.waits = 0,
                    !.vaaBytes = NoVaa,
                    !.currentlyProcessing = @ \cup {rs.events[i]}]

\* the end of a processing that leaves the sequence in currentlyProcessing
finishEvent_KeepsInFlight(rs) == processFrom(rs, rs.idx + 1)

\* the processing of one sequence ends the whole scan
finishEvent_DropRest(rs) ==
    processFrom([rs EXCEPT !.currentlyProcessing = @ \ {rs.events[rs.idx]}],
                Len(rs.events) + 1)

\* finally { currentlyProcessing.delete(sequenceId) }, then the next event
finishEvent(rs) ==
    processFrom([rs EXCEPT !.currentlyProcessing = @ \ {rs.events[rs.idx]}], rs.idx + 1)

\* relayVAA that takes only a transaction the provider knows as relayed
relayedBefore_OnlyKnown(message) ==
    message = "already known"

\* relayVAA's reading of a failed submission: these two messages mean that
\* the attestation was relayed before
relayedBefore(message) ==
    message \in {"already known", "VAA already processed"}

\* main: the cursor starts at the head of the source ledger, then the first
\* poll is started
\* variant of Start: the cursor starts at the first block
Start_FromFirstBlock(r) ==
    /\ relayer[r].pc = "stopped"
    /\ relayer' = [relayer EXCEPT ![r] = [StoppedRelayer EXCEPT
                                             !.pc = "idle",
                                             !.lastCheckedBlock = 0,
                                             !.latestBlock = srcHead,
                                             !.polls = 1]]
    /\ UNCHANGED <<srcVars, dstVars, last, srcHead, signed, upload, verifier>>

Start(r) ==
    /\ relayer[r].pc = "stopped"
    /\ relayer' = [relayer EXCEPT ![r] = [StoppedRelayer EXCEPT
                                             !.pc = "idle",
                                             !.lastCheckedBlock = srcHead,
                                             !.latestBlock = srcHead,
                                             !.polls = 1]]
    /\ UNCHANGED <<srcVars, dstVars, last, srcHead, signed, upload, verifier>>

\* variant of Poll: the next poll is scheduled before the scan, not after it
Poll_SchedulesFirst(r) ==
    LET rs == relayer[r]
        latestBlock == srcHead
        fromBlock == rs.lastCheckedBlock + 1
    IN
    /\ rs.pc = "idle"
    /\ rs.polls > 0
    /\ relayer' = [relayer EXCEPT ![r] =
          IF latestBlock >= fromBlock
          THEN [processFrom([rs EXCEPT !.latestBlock = latestBlock, !.polls = @ - 1,
                                       !.note = NoNote, !.ret = "none",
                                       !.events = queryFilter(srcLog, fromBlock, latestBlock)],
                            1) EXCEPT !.polls = 1]
          ELSE [rs EXCEPT !.note = NoNote, !.ret = "none"]]
    /\ UNCHANGED <<srcVars, dstVars, last, srcHead, signed, upload, verifier>>

\* variant of PollAt: the scan starts at the cursor's block
PollAt_FromCursorBlock(r, latestBlock) ==
    LET rs == relayer[r]
        fromBlock == rs.lastCheckedBlock
    IN
    /\ rs.pc = "idle"
    /\ rs.polls > 0
    /\ relayer' = [relayer EXCEPT ![r] =
          IF latestBlock >= fromBlock
          THEN processFrom([rs EXCEPT !.latestBlock = latestBlock, !.polls = @ - 1,
                                      !.note = NoNote, !.ret = "none",
                                      !.events = queryFilter(srcLog, fromBlock, latestBlock)],
                           1)
          ELSE [rs EXCEPT !.note = NoNote, !.ret = "none"]]
    /\ UNCHANGED <<srcVars, dstVars, last, srcHead, signed, upload, verifier>>

\* the initial getBlockNumber of main fails: main().catch logs the error and
\* ends the process with process.exit(1)
StartFail(r) ==
    /\ relayer[r].pc = "stopped"
    /\ relayer' = [relayer EXCEPT ![r] =
          [StoppedRelayer EXCEPT !.pc = "exited",
                                 !.note = [seq |-> NoSequence,
                                           message |-> "critical error"]]]
    /\ UNCHANGED <<srcVars, dstVars, last, srcHead, signed, upload, verifier>>

\* the process is killed or its machine goes down: the cursor, the in-flight
\* set and the pending timer are in memory only and are lost; a transaction
\* that was sent and not yet mined is mined all the same, or is dropped
Crash(r) ==
    LET rs == relayer[r] IN
    /\ rs.pc \notin {"stopped", "exited"}
    /\ relayer' = [relayer EXCEPT ![r] = StoppedRelayer]
    /\ \/ UNCHANGED <<dstVars, last>>
       \/ /\ rs.pc = "confirming"
          /\ DstTransaction("receiveAndVerifyVAA",
                            receiveAndVerifyVAA(DstState, wormhole, rs.vaaBytes))
    /\ UNCHANGED <<srcVars, srcHead, signed, upload, verifier>>

\* variant of PollAt without the comparison of the head with the cursor
PollAt_AlwaysScans(r, latestBlock) ==
    LET rs == relayer[r]
        fromBlock == rs.lastCheckedBlock + 1
    IN
    /\ rs.pc = "idle"
    /\ rs.polls > 0
    /\ relayer' = [relayer EXCEPT ![r] =
          processFrom([rs EXCEPT !.latestBlock = latestBlock, !.polls = @ - 1,
                                 !.note = NoNote, !.ret = "none",
                                 !.events = queryFilter(srcLog, fromBlock, latestBlock)],
                      1)]
    /\ UNCHANGED <<srcVars, dstVars, last, srcHead, signed, upload, verifier>>

\* pollAndReschedule up to its first pending await, getBlockNumber having
\* answered latestBlock
PollAt(r, latestBlock) ==
    LET rs == relayer[r]
        fromBlock == rs.lastCheckedBlock + 1
    IN
    /\ rs.pc = "idle"
    /\ rs.polls > 0
    /\ relayer' = [relayer EXCEPT ![r] =
          IF latestBlock >= fromBlock
          THEN processFrom([rs EXCEPT !.latestBlock = latestBlock, !.polls = @ - 1,
                                      !.note = NoNote, !.ret = "none",
                                      !.events = queryFilter(srcLog, fromBlock, latestBlock)],
                           1)
          ELSE [rs EXCEPT !.note = NoNote, !.ret = "none"]]
    /\ UNCHANGED <<srcVars, dstVars, last, srcHead, signed, upload, verifier>>

\* a poll whose provider answers with the newest block
Poll(r) == PollAt(r, srcHead)

\* a failed poll that ends the process
PollFail_Exits(r) ==
    /\ relayer[r].pc = "idle"
    /\ relayer[r].polls > 0
    /\ relayer' = [relayer EXCEPT ![r] =
          [StoppedRelayer EXCEPT !.pc = "exited",
                                 !.note = [seq |-> NoSequence,
                                           message |-> "polling error"]]]
    /\ UNCHANGED <<srcVars, dstVars, last, srcHead, signed, upload, verifier>>

\* a failed poll that moves the cursor to the head all the same
PollFail_SkipsRange(r) ==
    /\ relayer[r].pc = "idle"
    /\ relayer[r].polls > 0
    /\ relayer' = [relayer EXCEPT ![r].note = [seq |-> NoSequence, message |-> "polling error"],
                                ![r].ret = "none",
                                ![r].lastCheckedBlock = srcHead]
    /\ UNCHANGED <<srcVars, dstVars, last, srcHead, signed, upload, verifier>>

\* a provider error in getBlockNumber or queryFilter: logged, the cursor is
\* kept, the next poll is scheduled
PollFail(r) ==
    /\ relayer[r].pc = "idle"
    /\ relayer[r].polls > 0
    /\ relayer' = [relayer EXCEPT ![r].note = [seq |-> NoSequence, message |-> "polling error"],
                                ![r].ret = "none"]
    /\ UNCHANGED <<srcVars, dstVars, last, srcHead, signed, upload, verifier>>

\* variant of FetchVaa: the listener takes the VAA of any signed sequence
FetchVaa_AnySequence(r) ==
    LET rs == relayer[r] IN
    /\ rs.pc = "fetching"
    /\ \E seq \in signed :
         \E vaa \in AttestationService(WORMHOLE_CHAIN_ID_SEPOLIA,
                                       getEmitterAddressEth(IssuerAddress),
                                       toString(seq)) :
            relayer' = [relayer EXCEPT ![r].pc = "relaying", ![r].vaaBytes = vaa,
                                      ![r].note = NoNote, ![r].ret = "none"]
    /\ UNCHANGED <<srcVars, dstVars, last, srcHead, signed, upload, verifier>>

\* one attempt of fetchVAAWithRetry answered with a VAA: relayVAA sends it
FetchVaa(r) ==
    LET rs == relayer[r] IN
    /\ rs.pc = "fetching"
    /\ \E vaa \in AttestationService(WORMHOLE_CHAIN_ID_SEPOLIA,
                                     getEmitterAddressEth(IssuerAddress),
                                     rs.events[rs.idx]) :
          relayer' = [relayer EXCEPT ![r].pc = "relaying", ![r].vaaBytes = vaa,
                                    ![r].note = NoNote, ![r].ret = "none"]
    /\ UNCHANGED <<srcVars, dstVars, last, srcHead, signed, upload, verifier>>

\* what makes an attempt fail: no VAA in the answer yet, an answer with an
\* error status, an exception of fetch
FetchFailures == {"VAA not yet available in API response.", "API status", "network"}

\* variant of the catch of fetchVAAWithRetry: the loop gives up one attempt
\* later
fetchFailed_OneAttemptMore(rs, limit, e) ==
    IF rs.attempt = limit + 1
    THEN finishEvent([rs EXCEPT !.note = [seq |-> rs.events[rs.idx],
                                        message |-> "Failed to fetch VAA"],
                           !.ret = "none"])
    ELSE [rs EXCEPT !.attempt = @ + 1, !.waits = @ + 1,
                    !.note = NoNote, !.ret = "none"]

\* the catch of fetchVAAWithRetry for the failure e of an attempt: after the
\* last attempt the error is thrown and ends the processing of the sequence,
\* otherwise the delay is awaited and the next attempt follows
fetchFailed(rs, limit, e) ==
    IF rs.attempt = limit
    THEN finishEvent([rs EXCEPT !.note = [seq |-> rs.events[rs.idx],
                                        message |-> "Failed to fetch VAA"],
                           !.ret = "none"])
    ELSE [rs EXCEPT !.attempt = @ + 1, !.waits = @ + 1,
                    !.note = NoNote, !.ret = "none"]

\* one attempt answered "not yet available", with an error status, or not at
\* all
FetchRetry(r, maxAttempts) ==
    /\ relayer[r].pc = "fetching"
    /\ \E e \in FetchFailures :
          relayer' = [relayer EXCEPT ![r] = fetchFailed(@, maxAttempts, e)]
    /\ UNCHANGED <<srcVars, dstVars, last, srcHead, signed, upload, verifier>>

\* what error.message of a failed call says: the provider's refusal, the
\* revert reason of the simulation that precedes the sending, and for a
\* transaction that was mined and reverted either the reason or only that the
\* execution reverted
RefusedMessages == {"already known", "network error"}
MinedRevertMessages(reason) == {reason, "transaction execution reverted"}

\* a failed relay that ends the scan and leaves the later events aside
relayFailed_EndsScan(rs, message) ==
    IF relayedBefore(message)
    THEN finishEvent([rs EXCEPT !.note = [seq |-> rs.events[rs.idx], message |-> message],
                                !.ret = "true"])
    ELSE finishEvent_DropRest([rs EXCEPT !.note = [seq |-> rs.events[rs.idx],
                                                  message |-> message],
                                         !.ret = "false"])

\* the end of relayVAA with this error message, and of the sequence
relayFailed(rs, message) ==
    finishEvent([rs EXCEPT !.note = [seq |-> rs.events[rs.idx], message |-> message],
                           !.ret = IF relayedBefore(message) THEN "true" ELSE "false"])

\* relayVAA, await mirrorContract.receiveAndVerifyVAA(vaaHex): the call is
\* simulated on the Mirror as it is now; a revert is thrown with its reason
\* and nothing is sent, otherwise the transaction is sent
RelaySend(r) ==
    LET rs == relayer[r]
        res == receiveAndVerifyVAA(DstState, wormhole, rs.vaaBytes)
    IN
    /\ rs.pc = "relaying"
    /\ relayer' = [relayer EXCEPT ![r] =
          IF res.err = "ok" THEN [rs EXCEPT !.pc = "confirming", !.note = NoNote, !.ret = "none"]
          ELSE relayFailed(rs, res.err)]
    /\ UNCHANGED <<srcVars, dstVars, last, srcHead, signed, upload, verifier>>

\* relayVAA: the provider refuses the transaction or the connection fails
RelayRefused(r, message) ==
    LET rs == relayer[r] IN
    /\ rs.pc = "relaying"
    /\ relayer' = [relayer EXCEPT ![r] = relayFailed(rs, message)]
    /\ UNCHANGED <<srcVars, dstVars, last, srcHead, signed, upload, verifier>>

\* relayVAA, await tx.wait(): the transaction is mined; it is confirmed, or
\* it reverts and the wait is rejected
RelayMined(r) ==
    LET rs == relayer[r]
        res == receiveAndVerifyVAA(DstState, wormhole, rs.vaaBytes)
    IN
    /\ rs.pc = "confirming"
    /\ DstTransaction("receiveAndVerifyVAA", res)
    /\ IF res.err = "ok"
       THEN relayer' = [relayer EXCEPT ![r] =
               finishEvent([rs EXCEPT !.note = [seq |-> rs.events[rs.idx], message |-> "ok"],
                                      !.ret = "true"])]
       ELSE \E message \in MinedRevertMessages(res.err) :
               relayer' = [relayer EXCEPT ![r] = relayFailed(rs, message)]
    /\ UNCHANGED <<srcVars, srcHead, signed, upload, verifier>>

\* the source ledger closes the block it was building
MineBlock ==
    /\ srcHead < MaxBlock
    /\ srcHead' = srcHead + 1
    /\ UNCHANGED <<srcVars, dstVars, last, signed, relayer, upload, verifier>>

\* the guardians sign a published message of the Issuer: from now on the
\* Attestation Service serves its VAA
GuardiansSign(seq) ==
    /\ seq \notin signed
    /\ \E m \in wormhole.published : m.sequence = seq
    /\ signed' = signed \cup {seq}
    /\ UNCHANGED <<srcVars, dstVars, last, srcHead, relayer, upload, verifier>>

\* ------------------------------------------------------------------------
\* The upload gateway (backend/server.js)
\* ------------------------------------------------------------------------
\* the POST /upload requests the gateway serves, possibly at the same time
Requests == {"q1", "q2", "q3", "q4"}

\* what multer leaves in req.file: nothing, or the uploaded file
NoFile == "undefined"
Files == {"fileA", "fileB"}

\* the identifiers the pinning service answers with
IpfsHashes == Cids

NoResult == [IpfsHash |-> "none"]

\* a request that has not arrived yet: no response sent, no pinning call made
NewRequest ==
    [pc |-> "new", file |-> NoFile, pinCalls |-> 0, result |-> NoResult,
     responses |-> <<>>]

\* res.status(status).json(body)
json(rq, status, body) ==
    [rq EXCEPT !.responses = Append(@, [status |-> status, body |-> body])]

\* variant of uploadHandler: the 400 answer does not end the handler
uploadHandler_NoEarlyReturn(rq, file) ==
    LET got == [rq EXCEPT !.file = file]
        answered == IF file = NoFile
                    THEN json(got, 400, <<"error", "No file uploaded.">>)
                    ELSE got
    IN  [answered EXCEPT !.pc = "pinning", !.pinCalls = @ + 1]

\* the handler of POST /upload up to its await: without a file it answers 400
\* and ends; with a file it calls pinata.pinFileToIPFS and waits
uploadHandler(rq, file) ==
    LET got == [rq EXCEPT !.file = file]
    IN  IF file = NoFile
        THEN [json(got, 400, <<"error", "No file uploaded.">>) EXCEPT !.pc = "done"]
        ELSE [got EXCEPT !.pc = "pinning", !.pinCalls = @ + 1]

\* the handler after the pinning call resolved with result
pinResolved(rq, result) ==
    [json([rq EXCEPT !.result = result], 200, <<"cid", result.IpfsHash>>)
        EXCEPT !.pc = "done"]

\* the handler's catch block, after the pinning call failed
pinRejected(rq) ==
    [json(rq, 500, <<"error", "Failed to upload file to Pinata.">>)
        EXCEPT !.pc = "done"]

\* a POST /upload arrives, with or without a file
PostUpload(q, file) ==
    /\ upload[q].pc = "new"
    /\ upload' = [upload EXCEPT ![q] = uploadHandler(@, file)]
    /\ UNCHANGED <<srcVars, dstVars, last, srcHead, signed, relayer, verifier>>

\* the pinning service answers the call of request q with an identifier
PinFileResolves(q, hash) ==
    /\ upload[q].pc = "pinning"
    /\ upload' = [upload EXCEPT ![q] = pinResolved(@, [IpfsHash |-> hash])]
    /\ UNCHANGED <<srcVars, dstVars, last, srcHead, signed, relayer, verifier>>

\* the pinning call of request q fails (API error, time-out, ...)
PinFileRejects(q) ==
    /\ upload[q].pc = "pinning"
    /\ upload' = [upload EXCEPT ![q] = pinRejected(@)]
    /\ UNCHANGED <<srcVars, dstVars, last, srcHead, signed, relayer, verifier>>

\* ------------------------------------------------------------------------
\* The verifier page (frontend/js/verifier.js)
\* ------------------------------------------------------------------------

\* the two "Verify" buttons of the page
Networks == {"ethereum", "polygon"}

SEPOLIA_CHAIN_ID == 11155111
AMOY_CHAIN_ID == 80002

\* the chains the wallet may be connected to
ChainIds == {SEPOLIA_CHAIN_ID, AMOY_CHAIN_ID}

getTargetNetworkId(network) ==
    IF network = "ethereum" THEN SEPOLIA_CHAIN_ID ELSE AMOY_CHAIN_ID

\* a contract handle: an address, read through the wallet's provider
getContractForNetwork(network, provider) ==
    [address |-> IF network = "ethereum" THEN IssuerAddress ELSE MirrorAddress,
     chainId |-> provider]

NoContract == [address |-> ZeroAddress, chainId |-> 0]

\* the Issuer is deployed on Sepolia, the Mirror on Amoy
IsDeployed(contract) ==
    \/ contract.chainId = SEPOLIA_CHAIN_ID /\ contract.address = IssuerAddress
    \/ contract.chainId = AMOY_CHAIN_ID /\ contract.address = MirrorAddress

\* the two public mappings a call through the handle reads
StorageOf(contract) ==
    IF contract.address = IssuerAddress
    THEN [cidIssuer |-> issuer.cidIssuer, isRevoked |-> issuer.isRevoked]
    ELSE [cidIssuer |-> mirror.cidIssuer, isRevoked |-> mirror.isRevoked]

\* no check was started
NoCheck ==
    [pc |-> "idle", network |-> "none", cid |-> "none", contract |-> NoContract,
     issuerAddress |-> ZeroAddress, result |-> "none"]

\* the check throws: verifyCredential shows the message
thrown(v, message) ==
    [v EXCEPT !.pc = "done", !.result = message]

\* a click on one of the buttons with cid in the input field: verifyCredential
\* calls checkBlockchain, which asks the wallet for its network
VerifyCredential(network, cid) ==
    /\ verifier.pc \in {"idle", "done"}
    /\ verifier' = [NoCheck EXCEPT !.pc = "getNetwork", !.network = network, !.cid = cid]
    /\ UNCHANGED <<srcVars, dstVars, last, srcHead, signed, relayer, upload>>

\* the wallet answers with the chain it is connected to
GetNetwork(chainId) ==
    /\ verifier.pc = "getNetwork"
    /\ verifier' =
          IF chainId # getTargetNetworkId(verifier.network)
          THEN thrown(verifier, "Wrong Network")
          ELSE [verifier EXCEPT
                  !.pc = "cidIssuer",
                  !.contract = getContractForNetwork(verifier.network, chainId)]
    /\ UNCHANGED <<srcVars, dstVars, last, srcHead, signed, relayer, upload>>

\* the answer of contract.cidIssuer(cidHash)
ReadCidIssuer ==
    /\ verifier.pc = "cidIssuer"
    /\ IsDeployed(verifier.contract)
    /\ LET cidHash == keccak256(verifier.cid)
           issuerAddress == StorageOf(verifier.contract).cidIssuer[cidHash]
       IN  verifier' =
              IF issuerAddress = ZeroAddress
              THEN thrown(verifier, "This CID is not recorded on the blockchain.")
              ELSE [verifier EXCEPT !.pc = "isRevoked", !.issuerAddress = issuerAddress]
    /\ UNCHANGED <<srcVars, dstVars, last, srcHead, signed, relayer, upload>>

\* the check with a revocation on either ledger counted
ReadIsRevoked_EitherLedger ==
    /\ verifier.pc = "isRevoked"
    /\ IsDeployed(verifier.contract)
    /\ LET cidHash == keccak256(verifier.cid)
           isRevoked == issuer.isRevoked[cidHash] \/ mirror.isRevoked[cidHash]
       IN  verifier' =
              IF isRevoked
              THEN thrown(verifier, "This credential has been revoked.")
              ELSE [verifier EXCEPT !.pc = "done", !.result = "ok"]
    /\ UNCHANGED <<srcVars, dstVars, last, srcHead, signed, relayer, upload>>

\* the answer of contract.isRevoked(cidHash); checkBlockchain returns the
\* issuer address it read when the flag is false
ReadIsRevoked ==
    /\ verifier.pc = "isRevoked"
    /\ IsDeployed(verifier.contract)
    /\ LET cidHash == keccak256(verifier.cid)
           isRevoked == StorageOf(verifier.contract).isRevoked[cidHash]
       IN  verifier' =
              IF isRevoked
              THEN thrown(verifier, "This credential has been revoked.")
              ELSE [verifier EXCEPT !.pc = "done", !.result = "ok"]
    /\ UNCHANGED <<srcVars, dstVars, last, srcHead, signed, relayer, upload>>

\* one of the awaited calls rejects: the wallet or its node does not answer,
\* the wallet changed its network, or no contract is at the address
CallRejects ==
    /\ verifier.pc \in {"getNetwork", "cidIssuer", "isRevoked"}
    /\ verifier' = thrown(verifier, "call rejected")
    /\ UNCHANGED <<srcVars, dstVars, last, srcHead, signed, relayer, upload>>

\* ------------------------------------------------------------------------
\* The two ledgers, open to every caller
\* ------------------------------------------------------------------------

InitLedgers ==
    /\ issuer = [targetMirrorContract |-> ZeroAddress,
                 cidIssuer |-> [h \in CidHashes |-> ZeroAddress],
                 isRevoked |-> [h \in CidHashes |-> FALSE],
                 contentHashIssued |-> [h \in ContentHashes |-> FALSE]]
    /\ wormhole = [sequence |-> 0, published |-> {}]
    /\ srcLog = <<>>
    /\ issuance = {}
    /\ mirror = [cidIssuer |-> [h \in CidHashes |-> ZeroAddress],
                 processedVaas |-> {},
                 isRevoked |-> [h \in CidHashes |-> FALSE]]
    /\ dstLog = EmptyBag
    /\ last = [op |-> "constructor", result |-> "ok"]
    /\ srcHead = 0
    /\ signed = {}
    /\ relayer = [r \in Relayers |-> StoppedRelayer]
    /\ upload = [q \in Requests |-> NewRequest]
    /\ verifier = NoCheck

vars == <<issuer, wormhole, srcLog, issuance, mirror, dstLog, last, srcHead, signed, relayer,
          upload, verifier>>

\* batches whose two arrays have the same length, paid exactly
PaidBatches ==
    {<<b[1], b[2], MessageFee * Len(b[1])>> :
        b \in {c \in CidArrays \X HashArrays : Len(c[1]) = Len(c[2]) /\ Len(c[1]) > 0}}

NoRepeat(a) == \A i, j \in 1 .. Len(a) : a[i] = a[j] => i = j

\* batches the admission checks reject: empty, arrays of different lengths,
\* and batches without a repeated element that are paid one unit too little
RejectedBatches ==
    {<<<<>>, <<>>, 0>>}
    \cup {<<<<c>>, <<>>, MessageFee>> : c \in Cids}
    \cup {<<<<>>, <<h>>, 0>> : h \in ContentHashes}
    \cup {<<b[1], b[2], b[3] - 1>> :
            b \in {c \in PaidBatches : NoRepeat(c[1]) /\ NoRepeat(c[2])}}

BatchCalls == PaidBatches \cup RejectedBatches

\* an array of n elements that goes through the elements of base in turn
Cycle(base, n) == [i \in 1 .. n |-> base[((i - 1) % Len(base)) + 1]]

CidOrder == CHOOSE a \in CidArrays : Len(a) = Cardinality(Cids) /\ NoRepeat(a)
HashOrder == CHOOSE a \in HashArrays : Len(a) = Cardinality(ContentHashes) /\ NoRepeat(a)

\* batches at the size bound and one above it, with arrays of equal length or
\* one hash short, paid in full or one unit too little
BoundaryBatches ==
    {<<Cycle(CidOrder, n[1]), Cycle(HashOrder, n[1] - n[2]), MessageFee * n[1] - n[3]>> :
        n \in {MaxBatchSize, MaxBatchSize + 1} \X {0, 1} \X {0, 1}}

\* --- the source ledger alone: every call, every input
InitIssuer == InitLedgers

NextIssuer ==
    \/ \E sender \in Callers, cid \in Cids, contentHash \in ContentHashes, value \in Values :
          IssueCredential(sender, cid, contentHash, value)
    \/ \E sender \in Callers, b \in BatchCalls :
          BatchIssueCredentials(sender, b[1], b[2], b[3])
    \/ \E sender \in Callers, b \in BoundaryBatches :
          BatchIssueCredentials(sender, b[1], b[2], b[3])
    \/ \E sender \in Callers, cid \in Cids : IssuerRevokeCredential(sender, cid)
    \/ \E sender \in Callers, targetMirror \in {ZeroAddress, MirrorAddress} :
          SetMirrorContract(sender, targetMirror)

SpecIssuer == InitIssuer /\ [][NextIssuer]_vars

\* --- the destination ledger, fed by paid issuances on the source ledger:
\* anyone submits any byte string
InitMirror == InitLedgers

NextMirror ==
    \/ \E sender \in Callers, cid \in Cids, contentHash \in ContentHashes :
          IssueCredential(sender, cid, contentHash, MessageFee)
    \/ \E sender \in Callers, b \in PaidBatches :
          BatchIssueCredentials(sender, b[1], b[2], b[3])
    \/ \E vaa \in Vaas : ReceiveAndVerifyVAA(vaa)
    \/ \E sender \in Callers, cid \in Cids : MirrorRevokeCredential(sender, cid)

SpecMirror == InitMirror /\ [][NextMirror]_vars

\* --- both ledgers, every operation; attestations carry one quorum's
\* signatures or none that verifies
InitLedgersBoth == InitLedgers

NextLedgers ==
    \/ \E sender \in Callers, cid \in Cids, contentHash \in ContentHashes,
          value \in {MessageFee - 1, MessageFee} :
          IssueCredential(sender, cid, contentHash, value)
    \/ \E sender \in Callers, b \in BatchCalls :
          BatchIssueCredentials(sender, b[1], b[2], b[3])
    \/ \E sender \in Callers, cid \in Cids : IssuerRevokeCredential(sender, cid)
    \/ \E sender \in Callers, targetMirror \in {ZeroAddress, MirrorAddress} :
          SetMirrorContract(sender, targetMirror)
    \/ \E vaa \in {v \in Vaas : v.sig # "quorumB"} : ReceiveAndVerifyVAA(vaa)
    \/ \E sender \in Callers, cid \in Cids : MirrorRevokeCredential(sender, cid)

SpecLedgers == InitLedgersBoth /\ [][NextLedgers]_vars

\* --- the relay: each caller issues one credential of its own, blocks are
\* mined, the guardians sign, and the listeners run
RelayIssues == {<<"owner", "QmAAA", "H1">>, <<"user", "QmBBB", "H2">>}

InitRelay == InitLedgers

NextRelay ==
    \/ \E p \in RelayIssues :
          srcHead < MaxBlock /\ IssueCredential(p[1], p[2], p[3], MessageFee)
    \/ MineBlock
    \/ \E seq \in 0 .. (Cardinality(Cids) - 1) : GuardiansSign(seq)
    \/ \E r \in Relayers : Start(r)
    \/ \E r \in Relayers : Poll(r)
    \/ \E r \in Relayers : PollFail(r)
    \/ \E r \in Relayers : FetchVaa(r)
    \/ \E r \in Relayers : FetchRetry(r, RelayAttempts)
    \/ \E r \in Relayers : RelaySend(r)
    \/ \E r \in Relayers, message \in RefusedMessages : RelayRefused(r, message)
    \/ \E r \in Relayers : RelayMined(r)

SpecRelay == InitRelay /\ [][NextRelay]_vars

\* --- the upload gateway serving its requests
InitUpload == InitLedgers

NextUpload ==
    \/ \E q \in Requests, file \in Files \cup {NoFile} : PostUpload(q, file)
    \/ \E q \in Requests, hash \in IpfsHashes : PinFileResolves(q, hash)
    \/ \E q \in Requests : PinFileRejects(q)

SpecUpload == InitUpload /\ [][NextUpload]_vars

\* ------------------------------------------------------------------------
\* The verifier page against the two ledgers
\* ------------------------------------------------------------------------
InitVerify == InitLedgers

NextVerify ==
    \/ \E p \in RelayIssues : IssueCredential(p[1], p[2], p[3], MessageFee)
    \/ \E cid \in Cids : IssuerRevokeCredential("owner", cid)
    \/ \E vaa \in {v \in Vaas : v.vm \in wormhole.published /\ v.sig = "quorumA"} :
          ReceiveAndVerifyVAA(vaa)
    \/ \E cid \in Cids : MirrorRevokeCredential("owner", cid)
    \/ \E network \in Networks, cid \in Cids : VerifyCredential(network, cid)
    \/ \E chainId \in ChainIds : GetNetwork(chainId)
    \/ ReadCidIssuer
    \/ ReadIsRevoked
    \/ CallRejects

SpecVerify == InitVerify /\ [][NextVerify]_vars

\* --- one listener that keeps running, and the owner of the Mirror revoking
Solo == "r1"

InitSolo == InitLedgers

NextSolo ==
    \/ \E p \in RelayIssues :
          srcHead < MaxBlock /\ IssueCredential(p[1], p[2], p[3], MessageFee)
    \/ MineBlock
    \/ \E seq \in 0 .. (Cardinality(Cids) - 1) : GuardiansSign(seq)
    \/ Start(Solo)
    \/ Poll(Solo)
    \/ PollFail(Solo)
    \/ FetchVaa(Solo)
    \/ FetchRetry(Solo, RelayAttempts)
    \/ RelaySend(Solo)
    \/ \E message \in RefusedMessages : RelayRefused(Solo, message)
    \/ RelayMined(Solo)
    \/ \E cid \in Cids : MirrorRevokeCredential(MirrorOwner, cid)

\* blocks keep being mined; setTimeout always schedules the next poll, and a
\* poll that reaches the provider is never postponed for ever; every request
\* of the listener is answered or fails
FairnessSolo ==
    /\ WF_vars(MineBlock)
    /\ WF_vars(Poll(Solo))
    /\ WF_vars(FetchVaa(Solo) \/ FetchRetry(Solo, RelayAttempts))
    /\ WF_vars(RelaySend(Solo) \/ \E message \in RefusedMessages :
                                     RelayRefused(Solo, message))
    /\ WF_vars(RelayMined(Solo))

FairSpecSolo == InitSolo /\ [][NextSolo]_vars /\ FairnessSolo

\* --- one listener that can fail at start-up, go down and be started again,
\* and another whose start-up can fail
InitRestart == InitLedgers

NextRestart ==
    \/ \E p \in RelayIssues :
          srcHead < MaxBlock /\ IssueCredential(p[1], p[2], p[3], MessageFee)
    \/ MineBlock
    \/ \E seq \in 0 .. (Cardinality(Cids) - 1) : GuardiansSign(seq)
    \/ Start(Solo)
    \/ \E r \in Relayers : StartFail(r)
    \/ Crash(Solo)
    \/ Poll(Solo)
    \/ PollFail(Solo)
    \/ FetchVaa(Solo)
    \/ FetchRetry(Solo, RelayAttempts)
    \/ RelaySend(Solo)
    \/ \E message \in RefusedMessages : RelayRefused(Solo, message)
    \/ RelayMined(Solo)

SpecRestart == InitRestart /\ [][NextRestart]_vars

\* --- one listener whose provider may answer getBlockNumber with a head
\* that is behind the newest block, or behind one it answered before
InitStaleHead == InitLedgers

NextStaleHead ==
    \/ \E p \in RelayIssues :
          srcHead < MaxBlock /\ IssueCredential(p[1], p[2], p[3], MessageFee)
    \/ MineBlock
    \/ \E seq \in 0 .. (Cardinality(Cids) - 1) : GuardiansSign(seq)
    \/ Start(Solo)
    \/ \E reported \in 0 .. srcHead : PollAt(Solo, reported)
    \/ PollFail(Solo)
    \/ FetchVaa(Solo)
    \/ FetchRetry(Solo, RelayAttempts)
    \/ RelaySend(Solo)
    \/ \E message \in RefusedMessages : RelayRefused(Solo, message)
    \/ RelayMined(Solo)

SpecStaleHead == InitStaleHead /\ [][NextStaleHead]_vars

\* --- one listener with the number of attempts of the source
maxAttempts == 60

InitAcquire == InitLedgers

NextAcquire ==
    \/ \E p \in RelayIssues :
          srcHead < MaxBlock /\ IssueCredential(p[1], p[2], p[3], MessageFee)
    \/ MineBlock
    \/ \E seq \in 0 .. (Cardinality(Cids) - 1) : GuardiansSign(seq)
    \/ Start(Solo)
    \/ Poll(Solo)
    \/ PollFail(Solo)
    \/ FetchVaa(Solo)
    \/ FetchRetry(Solo, maxAttempts)
    \/ RelaySend(Solo)
    \/ \E message \in RefusedMessages : RelayRefused(Solo, message)
    \/ RelayMined(Solo)

\* every request of the listener is answered or fails
FairnessAcquire ==
    /\ WF_vars(FetchVaa(Solo) \/ FetchRetry(Solo, maxAttempts))
    /\ WF_vars(RelaySend(Solo) \/ \E message \in RefusedMessages :
                                     RelayRefused(Solo, message))
    /\ WF_vars(RelayMined(Solo))

FairSpecAcquire == InitAcquire /\ [][NextAcquire]_vars /\ FairnessAcquire


\* ------------------------------------------------------------------------
\* Properties
\* ------------------------------------------------------------------------

\* number of CredentialReceived events on the destination ledger
ReceivedCount ==
    LET ev == {e \in BagToSet(dstLog) : e.name = "CredentialReceived"}
        RECURSIVE Sum(_)
        Sum(S) == IF S = {} THEN 0
                  ELSE LET e == CHOOSE x \in S : TRUE IN CopiesIn(e, dstLog) + Sum(S \ {e})
    IN  Sum(ev)

\* the attestation is signed by a quorum and wraps a message of the trusted
\* emitter on the expected chain
ValidAndSourced(vaa) ==
    /\ parseAndVerifyVM(wormhole, vaa).valid
    /\ vaa.vm.emitterChainId = SOURCE_CHAIN_ID
    /\ vaa.vm.emitterAddress = trustedSourceContract

\* C1 (replay idempotence): a submit of a valid, correctly sourced attestation
\* succeeds when its digest is not yet processed, and then marks it; every
\* later submit of the same bytes fails with "VAA already processed" and
\* leaves the Mirror's records, digests and events as they were.  Each
\* processed digest stands for exactly one successful submit.
C1_ReplayIdempotence ==
    /\ [](ReceivedCount = Cardinality(mirror.processedVaas))
    /\ [][ last'.op = "receiveAndVerifyVAA" =>
           \A vaa \in Vaas :
              (ValidAndSourced(vaa) /\ ReceiveAndVerifyVAA(vaa)) =>
                 IF keccak256(vaa) \in mirror.processedVaas
                 THEN last'.result = "VAA already processed" /\ UNCHANGED dstVars
                 ELSE /\ last'.result = "ok"
                      /\ keccak256(vaa) \in mirror'.processedVaas
                      /\ mirror'.cidIssuer[vaa.vm.payload[2]] = vaa.vm.payload[1] ]_vars

\* a second submit of processed bytes was rejected, the record still there
C1_Witness ==
    /\ last = [op |-> "receiveAndVerifyVAA", result |-> "VAA already processed"]
    /\ \E vaa \in Vaas : /\ keccak256(vaa) \in mirror.processedVaas
                         /\ mirror.cidIssuer[vaa.vm.payload[2]] = vaa.vm.payload[1]
    /\ ReceivedCount = 1

\* C2 (provenance rejection): a submit whose source chain id or emitter is not
\* the configured one is rejected whatever its signatures are, changes no
\* record, digest or event of the Mirror; no processed digest is one of such
\* an attestation.
C2_ProvenanceRejection ==
    /\ [](\A d \in mirror.processedVaas :
             /\ d[2].vm.emitterChainId = SOURCE_CHAIN_ID
             /\ d[2].vm.emitterAddress = trustedSourceContract)
    /\ [][ last'.op = "receiveAndVerifyVAA" =>
           \A vaa \in Vaas :
              (/\ \/ vaa.vm.emitterChainId # SOURCE_CHAIN_ID
                  \/ vaa.vm.emitterAddress # trustedSourceContract
               /\ ReceiveAndVerifyVAA(vaa)) =>
                 /\ last'.result \in {"Invalid VAA", "Invalid source chain",
                                      "Untrusted source contract"}
                 /\ UNCHANGED dstVars ]_vars

\* a correctly signed attestation of another emitter was rejected after a
\* record had been mirrored
C2_Witness ==
    /\ last = [op |-> "receiveAndVerifyVAA", result |-> "Untrusted source contract"]
    /\ mirror.processedVaas # {}

\* C3 (end-to-end authenticity): every record of the Mirror has the identifier
\* hash and the issuer of a record of the Issuer.
C3_Authenticity ==
    \A h \in CidHashes :
        mirror.cidIssuer[h] # ZeroAddress =>
            /\ issuer.cidIssuer[h] = mirror.cidIssuer[h]
            /\ \E r \in issuance : keccak256(r.cid) = h /\ r.issuer = mirror.cidIssuer[h]

\* every issued identifier is mirrored, by two issuers
C3_Witness ==
    /\ \A h \in CidHashes : mirror.cidIssuer[h] # ZeroAddress
    /\ \E h1, h2 \in CidHashes : mirror.cidIssuer[h1] # mirror.cidIssuer[h2]

\* C4 (identifier uniqueness): at most one issuance ever succeeds for an
\* identifier; the issuer recorded for an identifier never changes; an
\* issueCredential for a recorded identifier, and a batch that holds one,
\* fails and writes nothing.
C4_IdentifierUniqueness ==
    /\ [](/\ \A r1, r2 \in issuance : r1.cid = r2.cid => r1 = r2
          /\ \A c \in Cids :
                Cardinality({k \in 1 .. Len(srcLog) :
                                /\ srcLog[k].name = "LogCredentialIssued"
                                /\ srcLog[k].cidHash = keccak256(c)}) <= 1)
    /\ [][ /\ \A h \in CidHashes :
                issuer.cidIssuer[h] # ZeroAddress => issuer'.cidIssuer[h] = issuer.cidIssuer[h]
           /\ last'.op = "issueCredential" =>
                \A sender \in Callers, cid \in Cids, contentHash \in ContentHashes,
                   value \in Values :
                   (/\ issuer.cidIssuer[keccak256(cid)] # ZeroAddress
                    /\ IssueCredential(sender, cid, contentHash, value))
                   => last'.result # "ok" /\ UNCHANGED srcVars
           /\ last'.op = "batchIssueCredentials" =>
                \A sender \in Callers, b \in BatchCalls :
                   (/\ \E i \in 1 .. Len(b[1]) :
                          issuer.cidIssuer[keccak256(b[1][i])] # ZeroAddress
                    /\ BatchIssueCredentials(sender, b[1], b[2], b[3]))
                   => last'.result # "ok" /\ UNCHANGED srcVars ]_vars

\* a second issuance of a recorded identifier, with fresh content, was refused
C4_Witness ==
    /\ last = [op |-> "issueCredential", result |-> "Credential already issued for this CID"]
    /\ Cardinality(issuance) = 1

\* C5 (content uniqueness): a content hash backs at most one issuance record;
\* the records are exactly the recorded identifiers and the marked content
\* hashes are exactly those of the records.
C5_ContentUniqueness ==
    /\ \A r1, r2 \in issuance : r1.contentHash = r2.contentHash => r1 = r2
    /\ \A h \in ContentHashes :
          issuer.contentHashIssued[h] <=> \E r \in issuance : r.contentHash = h
    /\ \A c \in Cids :
          issuer.cidIssuer[keccak256(c)] # ZeroAddress <=> \E r \in issuance : r.cid = c
    /\ Cardinality(issuance) =
          Cardinality({c \in Cids : issuer.cidIssuer[keccak256(c)] # ZeroAddress})

\* a batch that uses one content hash for two identifiers was refused as a
\* whole: nothing was issued before it, nothing is issued after it
C5_Witness ==
    /\ last = [op |-> "batchIssueCredentials",
               result |-> "Credential for this content already issued"]
    /\ issuance = {}

\* C8 (revocation monotonicity): on both ledgers a revoked flag that is set
\* stays set under every operation, and a revoke by the owner of a revoked
\* identifier fails with "Credential already revoked" and changes nothing.
C8_RevocationMonotone ==
    [][ /\ \A h \in CidHashes :
             /\ issuer.isRevoked[h] => issuer'.isRevoked[h]
             /\ mirror.isRevoked[h] => mirror'.isRevoked[h]
        /\ last'.op = "Issuer.revokeCredential" =>
             \A cid \in Cids :
                (issuer.isRevoked[keccak256(cid)] /\ IssuerRevokeCredential(IssuerOwner, cid))
                => /\ last'.result = "Credential already revoked"
                   /\ UNCHANGED <<srcVars, dstVars>>
        /\ last'.op = "Mirror.revokeCredential" =>
             \A cid \in Cids :
                (mirror.isRevoked[keccak256(cid)] /\ MirrorRevokeCredential(MirrorOwner, cid))
                => /\ last'.result = "Credential already revoked"
                   /\ UNCHANGED <<srcVars, dstVars>> ]_vars

\* a second revoke was refused on the destination ledger while the identifier
\* is revoked on both ledgers
C8_Witness ==
    /\ last = [op |-> "Mirror.revokeCredential", result |-> "Credential already revoked"]
    /\ \E h \in CidHashes : issuer.isRevoked[h] /\ mirror.isRevoked[h]

DuplicateIdentifier == "Credential already issued for this CID"
DuplicateContent == "Credential for this content already issued"

\* some identifier other than cid has a record issued with contentHash
BoundToOther(cid, contentHash) ==
    \E r \in issuance : r.contentHash = contentHash /\ r.cid # cid

\* C9 as stated (error selection of issue): a paid issueCredential(c, h) fails
\* with DuplicateIdentifier whenever c has a record, for every h, and fails
\* with DuplicateContent exactly when c has no record and h is bound to another
\* identifier.
C9_AsStated ==
    [][ last'.op = "issueCredential" =>
          \A sender \in Callers, cid \in Cids, contentHash \in ContentHashes :
             IssueCredential(sender, cid, contentHash, MessageFee) =>
                /\ issuer.cidIssuer[keccak256(cid)] # ZeroAddress
                      => last'.result = DuplicateIdentifier
                /\ last'.result = DuplicateContent
                      <=> /\ issuer.cidIssuer[keccak256(cid)] = ZeroAddress
                          /\ BoundToOther(cid, contentHash) ]_vars

\* C9 amended: a paid issueCredential(c, h) fails with DuplicateContent
\* whenever h was already issued, under any identifier, c itself included; it
\* fails with DuplicateIdentifier exactly when h was not yet issued and c has a
\* record; it succeeds exactly when neither holds.
C9_ErrorSelection ==
    [][ last'.op = "issueCredential" =>
          \A sender \in Callers, cid \in Cids, contentHash \in ContentHashes :
             IssueCredential(sender, cid, contentHash, MessageFee) =>
                LET used == \E r \in issuance : r.contentHash = contentHash
                    recorded == issuer.cidIssuer[keccak256(cid)] # ZeroAddress
                IN  /\ last'.result = DuplicateContent <=> used
                    /\ last'.result = DuplicateIdentifier <=> (~used /\ recorded)
                    /\ last'.result = "ok" <=> (~used /\ ~recorded) ]_vars

\* an issueCredential was refused for its content while every content hash in
\* use belongs to one recorded identifier and the other identifier is free
C9_Witness ==
    /\ last = [op |-> "issueCredential", result |-> DuplicateContent]
    /\ Cardinality(issuance) = 1
    /\ \E c \in Cids : issuer.cidIssuer[keccak256(c)] = ZeroAddress

\* pair i of the batch would fail as a single issue, or repeats the identifier
\* or the content hash of an earlier pair of the batch
PairFails(cids, contentHashes, i) ==
    \/ issuer.cidIssuer[keccak256(cids[i])] # ZeroAddress
    \/ issuer.contentHashIssued[contentHashes[i]]
    \/ \E j \in 1 .. (i - 1) : cids[j] = cids[i] \/ contentHashes[j] = contentHashes[i]

\* C10 (batch atomicity): an admitted batch with a failing pair fails and
\* leaves records, content marks, bridge messages and events as they were;
\* an admitted batch without one succeeds and records every pair for the
\* caller, with one message and one discovery event per pair.
C10_BatchAtomicity ==
    [][ last'.op = "batchIssueCredentials" =>
          \A sender \in Callers, b \in BatchCalls :
             (/\ batchAdmission(Len(b[1]), Len(b[2]), b[3]) = "ok"
              /\ BatchIssueCredentials(sender, b[1], b[2], b[3]))
             => IF \E i \in 1 .. Len(b[1]) : PairFails(b[1], b[2], i)
                THEN last'.result # "ok" /\ UNCHANGED srcVars
                ELSE /\ last'.result = "ok"
                     /\ \A i \in 1 .. Len(b[1]) :
                           /\ issuer'.cidIssuer[keccak256(b[1][i])] = sender
                           /\ issuer'.contentHashIssued[b[2][i]]
                     /\ Cardinality(wormhole'.published) =
                           Cardinality(wormhole.published) + Len(b[1])
                     /\ Len(srcLog') = Len(srcLog) + 2 * Len(b[1]) ]_vars

\* a batch that repeats an identifier was refused with nothing issued before
\* or after it: the first pair's writes were undone
C10_Witness ==
    /\ last = [op |-> "batchIssueCredentials", result |-> DuplicateIdentifier]
    /\ issuance = {}
    /\ srcLog = <<>>
    /\ wormhole.published = {}

\* the processed digests of attestations of the Issuer's message seq
DigestsOf(seq) ==
    {d \in mirror.processedVaas : d[2].vm.emitterAddress = trustedSourceContract
                                   /\ d[2].vm.sequence = seq}

\* a step in which relayVAA of listener r ends and its submit reached the
\* Mirror, in the simulation or in a mined transaction
Submitted(r) ==
    /\ relayer[r].pc \in {"relaying", "confirming"}
    /\ relayer'[r].pc \in {"idle", "fetching"}
    /\ relayer'[r].note.message \notin RefusedMessages

\* after its delivery the listener has removed the sequence from the in-flight
\* set and goes on with the next sequence of the scan, or closes the scan
GoesOn(rs, after) ==
    /\ after.note.seq = rs.events[rs.idx]
    /\ rs.events[rs.idx] \notin after.currentlyProcessing
    /\ IF rs.idx < Len(rs.events)
       THEN /\ after.pc = "fetching"
            /\ after.events[after.idx] = rs.events[rs.idx + 1]
       ELSE /\ after.pc = "idle"
            /\ after.lastCheckedBlock = rs.latestBlock

\* C6 (relayer idempotence under concurrency): when two listeners acquire and
\* submit the attestation of the same sequence, the sequence gets exactly one
\* processed digest and one record; a submit that finds the digest processed
\* changes nothing on the Mirror and ends with the already-processed outcome,
\* taken as a success; after its delivery a listener keeps running and goes on
\* with the later sequences.
C6_RelayerIdempotence ==
    /\ [](\A seq \in 0 .. (Cardinality(Cids) - 1) : Cardinality(DigestsOf(seq)) <= 1)
    /\ [](ReceivedCount = Cardinality(mirror.processedVaas))
    /\ [][ \A r \in Relayers :
             Submitted(r) =>
                LET rs == relayer[r]
                    after == relayer'[r]
                IN  /\ IF keccak256(rs.vaaBytes) \in mirror.processedVaas
                       THEN UNCHANGED dstVars
                       ELSE /\ after.note.message = "ok"
                            /\ keccak256(rs.vaaBytes) \in mirror'.processedVaas
                    /\ after.ret = "true"
                    /\ GoesOn(rs, after) ]_vars

\* both listeners sent the attestation of sequence 0 before either
\* transaction was mined; the Mirror received it once, and the listener whose
\* transaction reverted reported a failed relay
C6_Witness ==
    \E r \in Relayers :
       /\ relayer[r].note = [seq |-> toString(0), message |-> "transaction execution reverted"]
       /\ relayer[r].ret = "false"
       /\ Cardinality(DigestsOf(0)) = 1
       /\ ReceivedCount = 1

\* what holds of two listeners and one sequence: one processed digest and one
\* record; the losing submit changes nothing on the Mirror and is taken as a
\* success exactly when the error message names the revert reason; the
\* listener goes on in either case
C6_SingleRecord ==
    /\ [](\A seq \in 0 .. (Cardinality(Cids) - 1) : Cardinality(DigestsOf(seq)) <= 1)
    /\ [](ReceivedCount = Cardinality(mirror.processedVaas))
    /\ [][ \A r \in Relayers :
             Submitted(r) =>
                LET rs == relayer[r]
                    after == relayer'[r]
                IN  /\ IF keccak256(rs.vaaBytes) \in mirror.processedVaas
                       THEN /\ UNCHANGED dstVars
                            /\ after.note.message \in MinedRevertMessages("VAA already processed")
                            /\ after.ret = "true" <=>
                                  after.note.message = "VAA already processed"
                       ELSE /\ after.note.message = "ok"
                            /\ after.ret = "true"
                            /\ keccak256(rs.vaaBytes) \in mirror'.processedVaas
                    /\ GoesOn(rs, after) ]_vars

\* a listener lost the race for the first sequence of its scan, read the
\* revert reason, took it as a success and is fetching the second sequence
C6_SingleRecordWitness ==
    \E r \in Relayers :
       /\ relayer[r].note = [seq |-> toString(0), message |-> "VAA already processed"]
       /\ relayer[r].ret = "true"
       /\ relayer[r].pc = "fetching"
       /\ relayer[r].idx = 2
       /\ Cardinality(DigestsOf(0)) = 1

\* listener r is running and the Issuer has emitted sequence seq in the block
\* that follows the head of the source ledger
EmittedAfterStart(r, seq) ==
    /\ relayer[r].pc # "stopped"
    /\ \E k \in 1 .. Len(srcLog) :
          /\ srcLog[k].name = "CrossChainMessageEmitted"
          /\ srcLog[k].sequence = seq
          /\ srcLog[k].block > srcHead

\* the Mirror holds the record of the message with sequence seq, bound to the
\* original issuer
Mirrored(seq) ==
    \E m \in wormhole.published :
       /\ m.sequence = seq
       /\ mirror.cidIssuer[m.payload[2]] = m.payload[1]

\* listener r gave up fetching the attestation of seq
Exhausted(r, seq) ==
    relayer[r].note = [seq |-> toString(seq), message |-> "Failed to fetch VAA"]

\* the one submission listener r made for seq was not mined: the connection
\* failed, or the provider refused the transaction as already known
NotMined(r, seq) ==
    /\ relayer[r].note.seq = toString(seq)
    /\ relayer[r].note.message \in {"network error", "already known"}

AdmissionErrors ==
    {"Empty CIDs array", "Too many CIDs in batch",
     "CIDs and content hashes arrays must have same length",
     "Insufficient value for batch message fees"}

\* C11 (batch admission bounds): a batch is refused by an admission check
\* exactly when it is empty, has more than 50 identifiers, has arrays of
\* different lengths or is paid less than the fee times its size; a batch of
\* 50 is admitted, one of 51 is not; a refused batch changes nothing on the
\* source ledger.
C11_BatchAdmission ==
    [][ last'.op = "batchIssueCredentials" =>
          \A sender \in Callers, b \in BatchCalls \cup BoundaryBatches :
             BatchIssueCredentials(sender, b[1], b[2], b[3]) =>
                LET n == Len(b[1])
                    admitted == /\ 1 <= n
                                /\ n <= 50
                                /\ Len(b[2]) = n
                                /\ b[3] >= MessageFee * n
                IN  /\ last'.result \in AdmissionErrors <=> ~admitted
                    /\ ~admitted => UNCHANGED srcVars
                    /\ n = 51 => last'.result = "Too many CIDs in batch"
                    /\ n = 0 => last'.result = "Empty CIDs array" ]_vars

\* a batch of 51 identifiers was refused for its size after an issuance, and
\* nothing was added
C11_Witness ==
    /\ last = [op |-> "batchIssueCredentials", result |-> "Too many CIDs in batch"]
    /\ Cardinality(issuance) = 1

\* C12 (administrator-only operations): revoke on either ledger and
\* setMirrorContract succeed only for the owner; a call by anyone else fails
\* with OwnableUnauthorizedAccount and changes nothing on either ledger,
\* whatever the records are; the owner's setMirrorContract with the zero
\* address fails and changes nothing, and a mirror target that is set is
\* never the zero address again.
C12_AdministratorOnly ==
    [][ /\ issuer.targetMirrorContract # ZeroAddress =>
              issuer'.targetMirrorContract # ZeroAddress
        /\ last'.op = "Issuer.revokeCredential" =>
              \A sender \in Callers, cid \in Cids :
                 IssuerRevokeCredential(sender, cid) =>
                    IF sender = IssuerOwner
                    THEN last'.result # "OwnableUnauthorizedAccount"
                    ELSE /\ last'.result = "OwnableUnauthorizedAccount"
                         /\ UNCHANGED <<srcVars, dstVars>>
        /\ last'.op = "Mirror.revokeCredential" =>
              \A sender \in Callers, cid \in Cids :
                 MirrorRevokeCredential(sender, cid) =>
                    IF sender = MirrorOwner
                    THEN last'.result # "OwnableUnauthorizedAccount"
                    ELSE /\ last'.result = "OwnableUnauthorizedAccount"
                         /\ UNCHANGED <<srcVars, dstVars>>
        /\ last'.op = "setMirrorContract" =>
              \A sender \in Callers, targetMirror \in {ZeroAddress, MirrorAddress} :
                 SetMirrorContract(sender, targetMirror) =>
                    IF sender # IssuerOwner
                    THEN /\ last'.result = "OwnableUnauthorizedAccount"
                         /\ UNCHANGED <<srcVars, dstVars>>
                    ELSE IF targetMirror = ZeroAddress
                    THEN /\ last'.result = "Cannot set mirror to the zero address"
                         /\ UNCHANGED <<srcVars, dstVars>>
                    ELSE /\ last'.result = "ok"
                         /\ issuer'.targetMirrorContract = targetMirror ]_vars

\* with the mirror target set and a credential issued and mirrored, the
\* owner's call with the zero address has just been refused
C12_Witness ==
    /\ last = [op |-> "setMirrorContract", result |-> "Cannot set mirror to the zero address"]
    /\ issuer.targetMirrorContract = MirrorAddress
    /\ \E h \in CidHashes : issuer.cidIssuer[h] # ZeroAddress /\ mirror.cidIssuer[h] # ZeroAddress

\* C13 (revocation requires existence): on each ledger a revoked identifier
\* has a record on that ledger, and the owner's revoke of an identifier
\* without a record there fails with "Credential does not exist" and changes
\* nothing.
C13_RevocationRequiresExistence ==
    /\ [](\A h \in CidHashes :
            /\ issuer.isRevoked[h] => issuer.cidIssuer[h] # ZeroAddress
            /\ mirror.isRevoked[h] => mirror.cidIssuer[h] # ZeroAddress)
    /\ [][ /\ last'.op = "Issuer.revokeCredential" =>
               \A cid \in Cids :
                  (/\ issuer.cidIssuer[keccak256(cid)] = ZeroAddress
                   /\ IssuerRevokeCredential(IssuerOwner, cid))
                  => /\ last'.result = "Credential does not exist"
                     /\ UNCHANGED <<srcVars, dstVars>>
           /\ last'.op = "Mirror.revokeCredential" =>
               \A cid \in Cids :
                  (/\ mirror.cidIssuer[keccak256(cid)] = ZeroAddress
                   /\ MirrorRevokeCredential(MirrorOwner, cid))
                  => /\ last'.result = "Credential does not exist"
                     /\ UNCHANGED <<srcVars, dstVars>> ]_vars

\* an identifier issued and revoked on the source ledger is not mirrored, and
\* its revoke on the destination ledger has just been refused
C13_Witness ==
    /\ last = [op |-> "Mirror.revokeCredential", result |-> "Credential does not exist"]
    /\ \E h \in CidHashes : /\ issuer.isRevoked[h]
                             /\ mirror.cidIssuer[h] = ZeroAddress
                             /\ ~mirror.isRevoked[h]

\* C14 (state unchanged on ledger-side error): a call of either contract
\* that fails, for whatever reason, leaves records, content marks, revoked
\* flags, mirror target, bridge messages, processed digests and events of
\* both ledgers as they were.
C14_FailureChangesNothing ==
    [][ last'.result # "ok" => UNCHANGED <<srcVars, dstVars>> ]_vars

\* a submit of a processed attestation has just been refused, after a batch
\* was issued: one digest, one received event
C14_Witness ==
    /\ last = [op |-> "receiveAndVerifyVAA", result |-> "VAA already processed"]
    /\ Cardinality(mirror.processedVaas) = 1
    /\ ReceivedCount = 1
    /\ Cardinality(issuance) = Cardinality(Cids)

\* C15 (independence of revocation): a revoke on the source ledger publishes
\* no bridge message, logs no discovery event and changes nothing on the
\* destination ledger; a revoke on the destination ledger changes nothing on
\* the source ledger; a submit changes no revoked flag, and the record it
\* creates is not revoked, whether or not the credential is revoked on the
\* source ledger.
C15_RevocationIndependent ==
    [][ /\ last'.op = "Issuer.revokeCredential" =>
              /\ UNCHANGED <<wormhole, issuance, dstVars>>
              /\ \A k \in 1 .. Len(srcLog') :
                    k > Len(srcLog) => srcLog'[k].name = "CredentialRevoked"
        /\ last'.op = "Mirror.revokeCredential" => UNCHANGED srcVars
        /\ last'.op = "receiveAndVerifyVAA" =>
              /\ mirror'.isRevoked = mirror.isRevoked
              /\ UNCHANGED srcVars
              /\ \A h \in CidHashes :
                    (mirror.cidIssuer[h] = ZeroAddress /\ mirror'.cidIssuer[h] # ZeroAddress)
                       => ~mirror'.isRevoked[h] ]_vars

\* the only record of the Mirror has just been created by a submit, for a
\* credential already revoked on the source ledger; it is not revoked
C15_Witness ==
    /\ last = [op |-> "receiveAndVerifyVAA", result |-> "ok"]
    /\ Cardinality(mirror.processedVaas) = 1
    /\ \E h \in CidHashes : /\ issuer.isRevoked[h]
                             /\ mirror.cidIssuer[h] # ZeroAddress
                             /\ ~mirror.isRevoked[h]

\* a step in which relayVAA of listener r returns
Returned(r) ==
    /\ relayer[r].pc \in {"relaying", "confirming"}
    /\ relayer'[r].pc \in {"idle", "fetching"}

\* C16 (delivery outcomes): relayVAA sends the attestation at most once and
\* returns to its caller in one of three ways: the transaction is confirmed,
\* the digest is then processed and true is returned; the error message says
\* "VAA already processed" or "already known" and true is returned; any other
\* error is logged and false is returned.  The listener then goes on with the
\* next sequence and never submits this one again.
C16_DeliveryOutcomes ==
    [][ \A r \in Relayers :
          LET rs == relayer[r]
              after == relayer'[r]
              m == after.note.message
          IN  /\ (rs.pc = "relaying" /\ after # rs) =>
                    \/ after = [rs EXCEPT !.pc = "confirming"] /\ UNCHANGED dstVars
                    \/ Returned(r) /\ m # "ok" /\ UNCHANGED dstVars
              /\ (rs.pc = "confirming" /\ after # rs) => Returned(r)
              /\ Returned(r) =>
                    /\ GoesOn(rs, after)
                    /\ after.ret \in {"true", "false"}
                    /\ m = "ok" =>
                          /\ after.ret = "true"
                          /\ rs.pc = "confirming"
                          /\ keccak256(rs.vaaBytes) \in mirror'.processedVaas
                    /\ m \in {"VAA already processed", "already known"} =>
                          after.ret = "true" /\ UNCHANGED dstVars
                    /\ m \notin {"ok", "VAA already processed", "already known"} =>
                          after.ret = "false" /\ UNCHANGED dstVars ]_vars

\* each of the three outcomes was the last one of some delivery: one listener
\* was refused by the network for the first sequence of its scan and is
\* fetching the second; the other delivered the first sequence
C16_Witness ==
    \E r, q \in Relayers :
       /\ relayer[r].note = [seq |-> toString(0), message |-> "network error"]
       /\ relayer[r].ret = "false"
       /\ relayer[r].pc = "fetching"
       /\ relayer[r].idx = 2
       /\ relayer[q].note = [seq |-> toString(0), message |-> "ok"]
       /\ relayer[q].ret = "true"
       /\ Cardinality(DigestsOf(0)) = 1

\* listener r is acquiring or delivering the attestation of sequence seq
Processing(r, seq) ==
    /\ relayer[r].pc \in {"fetching", "relaying", "confirming"}
    /\ relayer[r].events[relayer[r].idx] = toString(seq)

\* C17 (exhaustion is terminal for one sequence only): the step in which the
\* last acquisition attempt for a sequence fails sends nothing to the Mirror,
\* removes the sequence from the in-flight set and lets the listener go on
\* with the next sequence of the scan or close the scan; from then on this
\* listener never fetches or submits that sequence again.
C17_ExhaustionTerminal ==
    /\ [][ (/\ relayer[Solo].pc = "fetching"
            /\ relayer'[Solo] # relayer[Solo]
            /\ relayer'[Solo].note.message = "Failed to fetch VAA")
           => /\ relayer[Solo].attempt = RelayAttempts
              /\ GoesOn(relayer[Solo], relayer'[Solo])
              /\ UNCHANGED <<dstVars, last>> ]_vars
    /\ \A seq \in 0 .. (Cardinality(Cids) - 1) :
          [](Exhausted(Solo, seq) => [](~Processing(Solo, seq)))

\* the listener gave up the first sequence of its scan and is fetching the
\* second; the Mirror has received nothing
C17_Witness ==
    /\ Exhausted(Solo, 0)
    /\ Processing(Solo, 1)
    /\ mirror.processedVaas = {}

\* a step in which listener r ends the processing of a sequence without
\* success: its acquisition is given up or its delivery fails
EndsInFailure(r) ==
    /\ relayer[r].pc \in {"fetching", "relaying", "confirming"}
    /\ relayer'[r] # relayer[r]
    /\ relayer'[r].note.seq = relayer[r].events[relayer[r].idx]
    /\ relayer'[r].ret # "true"

\* C18 (error isolation between sequences): when the processing of a
\* sequence ends in a failure of any kind, the listener starts the
\* acquisition of the next sequence of the same scan, or closes the scan and
\* moves the cursor to its head when there is none; it keeps polling, and
\* the other listener is not affected.  A started listener never stops.
C18_ErrorIsolation ==
    [][ \A r \in Relayers :
          /\ relayer[r].pc # "stopped" => relayer'[r].pc # "stopped"
          /\ EndsInFailure(r) =>
                LET rs == relayer[r]
                    after == relayer'[r]
                IN  /\ GoesOn(rs, after)
                    /\ after.currentlyProcessing \subseteq {after.events[k] : k \in {after.idx} \ {0}}
                    /\ rs.idx < Len(rs.events) =>
                          /\ after.events = rs.events
                          /\ after.idx = rs.idx + 1
                          /\ after.attempt = 1
                          /\ after.events[after.idx] \in after.currentlyProcessing
                          /\ after.lastCheckedBlock = rs.lastCheckedBlock
                    /\ \A q \in Relayers \ {r} : relayer'[q] = relayer[q] ]_vars

\* the delivery of the first sequence of a scan failed when its transaction
\* reverted, and the listener is at the first fetch of the second sequence
C18_Witness ==
    \E r \in Relayers :
       /\ relayer[r].note = [seq |-> toString(0), message |-> "transaction execution reverted"]
       /\ relayer[r].ret = "false"
       /\ Processing(r, 1)
       /\ relayer[r].attempt = 1
       /\ relayer[r].pc = "fetching"

\* listener r is inside the processing of a sequence: between two fetches,
\* or waiting for its transaction to be sent or mined
Waiting(r) == relayer[r].pc \in {"fetching", "relaying", "confirming"}

\* C19 (discovery is not blocked by delivery): while a listener is waiting
\* inside the processing of a sequence and the source ledger has a head newer
\* than the one it scanned, the listener can poll.
C19_DiscoveryNotBlocked ==
    \A r \in Relayers :
       (Waiting(r) /\ srcHead > relayer[r].latestBlock) => ENABLED Poll(r)

\* a listener is at the last fetch of the first sequence while the source
\* ledger has a newer head holding the second sequence; the cursor is still
\* where it was when the listener started
C19_Witness ==
    \E r \in Relayers :
       /\ Processing(r, 0)
       /\ relayer[r].pc = "fetching"
       /\ relayer[r].attempt = RelayAttempts
       /\ srcHead > relayer[r].latestBlock
       /\ relayer[r].lastCheckedBlock = 0
       /\ \E k \in 1 .. Len(srcLog) :
             /\ srcLog[k].name = "CrossChainMessageEmitted"
             /\ srcLog[k].sequence = 1
             /\ srcLog[k].block = srcHead

\* what holds instead: while a listener is inside the processing of a
\* sequence it does not read the head, its cursor and its scan stay as they
\* are, and when the scan ends the cursor moves to the head read before the
\* scan, whatever the head has become
C19_DiscoveryBlocked ==
    [][ \A r \in Relayers :
          Waiting(r) =>
             /\ relayer'[r].latestBlock = relayer[r].latestBlock
             /\ IF relayer'[r].pc \in {"fetching", "relaying", "confirming"}
                THEN /\ relayer'[r].lastCheckedBlock = relayer[r].lastCheckedBlock
                     /\ relayer'[r].events = relayer[r].events
                ELSE /\ relayer'[r].pc = "idle"
                     /\ relayer'[r].lastCheckedBlock = relayer[r].latestBlock ]_vars

\* a step of listener r out of the state in which its next poll is pending
PollStep(r) ==
    /\ relayer[r].pc = "idle"
    /\ relayer'[r] # relayer[r]

\* C20 (recovery from provider failure): a poll that fails at the provider
\* leaves the listener running with its next poll pending, and leaves its
\* cursor, its in-flight set and both ledgers as they were; every poll that
\* does not fail scans exactly the blocks from cursor + 1 to the head, so the
\* poll after a failed one covers the blocks the failed one would have
\* scanned; the cursor never moves back.
C20_ProviderFailure ==
    [][ \A r \in Relayers :
          LET rs == relayer[r]
              after == relayer'[r]
          IN  /\ (rs.pc # "stopped") => after.lastCheckedBlock >= rs.lastCheckedBlock
              /\ (PollStep(r) /\ after.note.message = "polling error") =>
                    /\ after = [rs EXCEPT !.note = after.note, !.ret = "none"]
                    /\ UNCHANGED <<srcVars, dstVars, srcHead>>
              /\ (PollStep(r) /\ after.note.message # "polling error") =>
                    LET found == queryFilter(srcLog, rs.lastCheckedBlock + 1, srcHead) IN
                    IF found = <<>>
                    THEN /\ after.pc = "idle"
                         /\ after.lastCheckedBlock = srcHead
                    ELSE /\ after.pc = "fetching"
                         /\ after.events = found
                         /\ after.idx = 1
                         /\ after.lastCheckedBlock = rs.lastCheckedBlock ]_vars

\* a poll has just failed while the source ledger holds, after the cursor, a
\* mined block with an event the listener has not scanned
C20_Witness ==
    \E r \in Relayers :
       /\ relayer[r].pc = "idle"
       /\ relayer[r].note.message = "polling error"
       /\ queryFilter(srcLog, relayer[r].lastCheckedBlock + 1, srcHead) # <<>>

\* ------------------------------------------------------------------------
\* C21  Every POST /upload yields exactly one response: 400 with an error body
\* and no pinning call when it carries no file; 200 with the identifier the
\* pinning service returned when the call succeeds; 500 with an error body
\* when the call fails.  Uploads served at the same time are independent: each
\* makes exactly one pinning call and gets its own response, and a step of
\* one request leaves every other request as it was.
\* ------------------------------------------------------------------------
Answered(q) == upload[q].pc = "done"

ResponseOf(q) == upload[q].responses[1]

C21_UploadContract ==
    /\ [](\A q \in Requests :
            LET rq == upload[q]
            IN  /\ Len(rq.responses) = (IF Answered(q) THEN 1 ELSE 0)
                /\ rq.pinCalls = (IF rq.pc = "new" \/ rq.file = NoFile THEN 0 ELSE 1)
                /\ Answered(q) =>
                     \/ /\ rq.file = NoFile
                        /\ ResponseOf(q).status = 400
                        /\ ResponseOf(q).body[1] = "error"
                     \/ /\ rq.file # NoFile
                        /\ rq.result # NoResult
                        /\ ResponseOf(q) = [status |-> 200,
                                            body |-> <<"cid", rq.result.IpfsHash>>]
                     \/ /\ rq.file # NoFile
                        /\ rq.result = NoResult
                        /\ ResponseOf(q).status = 500
                        /\ ResponseOf(q).body[1] = "error")
    /\ [][ \E q \in Requests :
             /\ \A o \in Requests \ {q} : upload'[o] = upload[o]
             /\ upload[q].pc = "pinning" => /\ upload'[q].pc = "done"
                                            /\ upload'[q].pinCalls = upload[q].pinCalls
             /\ upload[q].pc = "done" => upload'[q] = upload[q] ]_vars

\* four uploads were in progress at once: one was answered 200, one 500, one
\* 400, and one is still waiting for the pinning service
C21_Witness ==
    \E a, b, c, d \in Requests :
        /\ Answered(a) /\ ResponseOf(a).status = 200
        /\ Answered(b) /\ ResponseOf(b).status = 500
        /\ Answered(c) /\ ResponseOf(c).status = 400
        /\ upload[d].pc = "pinning"

\* ------------------------------------------------------------------------
\* C22  receiveAndVerifyVAA checks, in this order, the signatures, the source
\* chain id, the emitter, the replay guard, and then materializes; it reports
\* the first check that fails: bytes that do not verify give "Invalid VAA"
\* whatever their chain, emitter or digest; a verified attestation with a
\* wrong chain gives "Invalid source chain" even when its emitter is wrong
\* too; "VAA already processed" is only reported for a verified, correctly
\* sourced attestation; on success the digest is marked before the record is
\* written.
\* ------------------------------------------------------------------------
C22_CheckOrder ==
    [][ last'.op = "receiveAndVerifyVAA" =>
          \A vaa \in Vaas :
             ReceiveAndVerifyVAA(vaa) =>
                LET valid == parseAndVerifyVM(wormhole, vaa).valid
                    chainOk == vaa.vm.emitterChainId = SOURCE_CHAIN_ID
                    emitterOk == vaa.vm.emitterAddress = trustedSourceContract
                    fresh == keccak256(vaa) \notin mirror.processedVaas
                    marked == markProcessed(DstState, vaa)
                IN  /\ ~valid => last'.result = "Invalid VAA"
                    /\ (valid /\ ~chainOk) => last'.result = "Invalid source chain"
                    /\ (valid /\ chainOk /\ ~emitterOk)
                          => last'.result = "Untrusted source contract"
                    /\ last'.result = "VAA already processed"
                          <=> (valid /\ chainOk /\ emitterOk /\ ~fresh)
                    /\ last'.result = "ok"
                          <=> (valid /\ chainOk /\ emitterOk /\ fresh)
                    /\ last'.result = "ok" =>
                          /\ keccak256(vaa) \in marked.mirror.processedVaas
                          /\ marked.mirror.cidIssuer = mirror.cidIssuer
                          /\ marked.log = dstLog
                          /\ mirror' = storeRecord(marked, vaa).mirror ]_vars

\* after a record was mirrored, a verified attestation of another chain was
\* refused for its chain
C22_Witness ==
    /\ last = [op |-> "receiveAndVerifyVAA", result |-> "Invalid source chain"]
    /\ \E h \in CidHashes : mirror.cidIssuer[h] # ZeroAddress

\* ------------------------------------------------------------------------
\* C23  Every successful issueCredential publishes exactly one bridge message
\* with payload (caller, hash of the identifier) and emits exactly one
\* CrossChainMessageEmitted carrying the sequence the bridge returned; a
\* successful batch of n pairs publishes n messages and emits n such events,
\* in array order.  In every reachable state there are as many
\* CrossChainMessageEmitted events as issuance records, and each event is the
\* sequence of a published message whose record exists.
\* ------------------------------------------------------------------------
IsDiscovery(e) == e.name = "CrossChainMessageEmitted"

DiscoveryEvents(log) == SelectSeq(log, IsDiscovery)

IssuanceRecords == {h \in CidHashes : issuer.cidIssuer[h] # ZeroAddress}

\* the call published, from the bridge's next sequence on, one message for
\* each pair, by sender, in the order of cids, and announced each sequence
PublishedInOrder(sender, cids) ==
    LET n == Len(cids)
        first == wormhole.sequence
        announced == DiscoveryEvents(srcLog')
        before == Len(DiscoveryEvents(srcLog))
    IN  /\ wormhole'.sequence = first + n
        /\ wormhole'.published = wormhole.published \cup
              {MakeVM(SOURCE_CHAIN_ID, AddressToBytes32(IssuerAddress), first + i - 1,
                      <<sender, keccak256(cids[i])>>) : i \in 1 .. n}
        /\ Cardinality(wormhole'.published) = Cardinality(wormhole.published) + n
        /\ Len(announced) = before + n
        /\ SubSeq(announced, 1, before) = DiscoveryEvents(srcLog)
        /\ \A i \in 1 .. n : announced[before + i].sequence = first + i - 1

C23_OneMessagePerIssuance ==
    /\ [](LET announced == DiscoveryEvents(srcLog)
          IN  /\ Len(announced) = Cardinality(IssuanceRecords)
              /\ Len(announced) = Cardinality(issuance)
              /\ \A i \in 1 .. Len(announced) :
                    \E m \in wormhole.published :
                       /\ m.sequence = announced[i].sequence
                       /\ issuer.cidIssuer[m.payload[2]] = m.payload[1]
              /\ \A i, j \in 1 .. Len(announced) :
                    announced[i].sequence = announced[j].sequence => i = j)
    /\ [][ /\ (last'.op = "issueCredential" /\ last'.result = "ok") =>
                \A sender \in Callers, cid \in Cids, contentHash \in ContentHashes,
                   value \in Values :
                   IssueCredential(sender, cid, contentHash, value) =>
                      PublishedInOrder(sender, <<cid>>)
           /\ (last'.op = "batchIssueCredentials" /\ last'.result = "ok") =>
                \A sender \in Callers, b \in BatchCalls :
                   BatchIssueCredentials(sender, b[1], b[2], b[3]) =>
                      PublishedInOrder(sender, b[1])
           /\ (last'.op \notin {"issueCredential", "batchIssueCredentials"}
                 \/ last'.result # "ok") =>
                /\ wormhole' = wormhole
                /\ DiscoveryEvents(srcLog') = DiscoveryEvents(srcLog) ]_vars

\* a batch of two pairs succeeded after nothing else: sequences 0 and 1 were
\* announced in this order
C23_Witness ==
    /\ last = [op |-> "batchIssueCredentials", result |-> "ok"]
    /\ Len(DiscoveryEvents(srcLog)) = 2
    /\ DiscoveryEvents(srcLog)[1].sequence = 0
    /\ DiscoveryEvents(srcLog)[2].sequence = 1
    /\ Cardinality(wormhole.published) = 2

\* ------------------------------------------------------------------------
\* C24  The set of processed digests is monotone and exact: it starts empty,
\* no operation (revocation included) removes a digest, a digest enters it
\* only in a successful receiveAndVerifyVAA of bytes with that digest, and
\* every successful receiveAndVerifyVAA adds the digest of its bytes, which
\* was not in the set before.
\* ------------------------------------------------------------------------
C24_ProcessedSetExact ==
    /\ [](last.op = "constructor" => mirror.processedVaas = {})
    /\ [][ /\ mirror.processedVaas \subseteq mirror'.processedVaas
           /\ \A dg \in mirror'.processedVaas \ mirror.processedVaas :
                 /\ last'.op = "receiveAndVerifyVAA"
                 /\ last'.result = "ok"
                 /\ dg[2] \in Vaas
                 /\ ReceiveAndVerifyVAA(dg[2])
           /\ (last'.op = "receiveAndVerifyVAA" /\ last'.result = "ok") =>
                 \A vaa \in Vaas :
                    ReceiveAndVerifyVAA(vaa) =>
                       /\ keccak256(vaa) \notin mirror.processedVaas
                       /\ mirror'.processedVaas =
                             mirror.processedVaas \cup {keccak256(vaa)}
           /\ (last'.op # "receiveAndVerifyVAA" \/ last'.result # "ok") =>
                 mirror'.processedVaas = mirror.processedVaas ]_vars

\* the owner revoked a record whose two byte-distinct attestations had both
\* been processed: their digests are still in the set
C24_Witness ==
    /\ last = [op |-> "Mirror.revokeCredential", result |-> "ok"]
    /\ \E a, b \in Vaas :
          /\ a # b
          /\ a.vm = b.vm
          /\ {keccak256(a), keccak256(b)} \subseteq mirror.processedVaas
          /\ mirror.isRevoked[a.vm.payload[2]]

\* ------------------------------------------------------------------------
\* C25  On the destination an identifier goes Absent -> Mirrored -> Revoked
\* and never back: a record is never deleted, only a mirrored record is
\* revoked, the issuer of a record never changes (not even in a later
\* successful receiveAndVerifyVAA whose payload carries the same identifier),
\* and a revoked record stays revoked.
\* ------------------------------------------------------------------------
DstPhase(m, h) ==
    IF m.cidIssuer[h] = ZeroAddress /\ ~m.isRevoked[h] THEN "Absent"
    ELSE IF m.cidIssuer[h] # ZeroAddress /\ ~m.isRevoked[h] THEN "Mirrored"
    ELSE IF m.cidIssuer[h] # ZeroAddress /\ m.isRevoked[h] THEN "Revoked"
    ELSE "RevokedWithoutRecord"

C25_DestinationStateMachine ==
    /\ [](\A h \in CidHashes : DstPhase(mirror, h) # "RevokedWithoutRecord")
    /\ [][ /\ \A h \in CidHashes :
                /\ <<DstPhase(mirror, h), DstPhase(mirror', h)>> \in
                      {<<"Absent", "Absent">>, <<"Absent", "Mirrored">>,
                       <<"Mirrored", "Mirrored">>, <<"Mirrored", "Revoked">>,
                       <<"Revoked", "Revoked">>}
                /\ mirror.cidIssuer[h] # ZeroAddress =>
                      mirror'.cidIssuer[h] = mirror.cidIssuer[h]
           /\ (last'.op = "receiveAndVerifyVAA" /\ last'.result = "ok") =>
                \A vaa \in Vaas :
                   (/\ ReceiveAndVerifyVAA(vaa)
                    /\ mirror.cidIssuer[vaa.vm.payload[2]] # ZeroAddress)
                   => /\ mirror'.cidIssuer = mirror.cidIssuer
                      /\ mirror'.isRevoked = mirror.isRevoked ]_vars

\* a second attestation of a revoked record's message was processed: the
\* record is still revoked, with the issuer it had
C25_Witness ==
    /\ last = [op |-> "receiveAndVerifyVAA", result |-> "ok"]
    /\ \E a, b \in Vaas :
          /\ a # b
          /\ a.vm = b.vm
          /\ {keccak256(a), keccak256(b)} \subseteq mirror.processedVaas
          /\ DstPhase(mirror, a.vm.payload[2]) = "Revoked"
          /\ mirror.cidIssuer[a.vm.payload[2]] = a.vm.payload[1]

\* ------------------------------------------------------------------------
\* C26  fetchVAAWithRetry queries the Attestation Service at least once and
\* at most maxAttempts (60) times.  It stops at the first attempt that
\* returns an attestation and returns exactly those bytes.  Every failed
\* attempt before the last, whatever made it fail, is followed by one wait and
\* the next attempt; the failure of attempt number maxAttempts ends the
\* acquisition at once, without a wait.  The acquisition always ends.
\* ------------------------------------------------------------------------
Acquiring(r, seq) ==
    /\ relayer[r].pc = "fetching"
    /\ relayer[r].events[relayer[r].idx] = toString(seq)

C26_BoundedAcquisition ==
    /\ [](relayer[Solo].pc = "fetching" =>
             /\ 1 <= relayer[Solo].attempt
             /\ relayer[Solo].attempt <= maxAttempts
             /\ relayer[Solo].waits = relayer[Solo].attempt - 1)
    /\ [][ (relayer[Solo].pc = "fetching" /\ relayer'[Solo] # relayer[Solo]) =>
             LET rs == relayer[Solo]
                 after == relayer'[Solo]
                 sequence == rs.events[rs.idx]
             IN  \/ /\ after.pc = "relaying"
                    /\ after.vaaBytes \in
                          AttestationService(WORMHOLE_CHAIN_ID_SEPOLIA,
                                             getEmitterAddressEth(IssuerAddress),
                                             sequence)
                    /\ after.attempt = rs.attempt
                    /\ after.waits = rs.waits
                    /\ after.idx = rs.idx
                 \/ /\ rs.attempt < maxAttempts
                    /\ after = [rs EXCEPT !.attempt = @ + 1, !.waits = @ + 1,
                                          !.note = NoNote, !.ret = "none"]
                 \/ /\ rs.attempt = maxAttempts
                    /\ after.note = [seq |-> sequence, message |-> "Failed to fetch VAA"]
                    /\ sequence \notin after.currentlyProcessing
                    /\ after.vaaBytes.sig = NoVaa.sig
                    /\ after.pc \in {"idle", "fetching"}
                    /\ after.pc = "fetching" => after.idx > rs.idx /\ after.attempt = 1
                    /\ UNCHANGED <<dstVars, last>> ]_vars
    /\ \A seq \in 0 .. (Cardinality(Cids) - 1) :
          Acquiring(Solo, seq) ~> ~Acquiring(Solo, seq)

\* the attestation of sequence 1 came with the last attempt, after the
\* acquisition of sequence 0 had run out of attempts
C26_Witness ==
    /\ relayer[Solo].pc = "relaying"
    /\ relayer[Solo].events[relayer[Solo].idx] = toString(1)
    /\ relayer[Solo].attempt = maxAttempts
    /\ relayer[Solo].waits = maxAttempts - 1
    /\ relayer[Solo].vaaBytes.sig \in GoodSigs
    /\ toString(0) \notin relayer[Solo].currentlyProcessing
    /\ Len(relayer[Solo].events) = 2
    /\ ~Mirrored(0)

\* ------------------------------------------------------------------------
\* C27  A listener submits for a sequence only after its acquisition for that
\* sequence returned an attestation; the bytes it submits are exactly the
\* bytes acquired for that sequence; it submits at most once in one
\* processing of the sequence.
\* ------------------------------------------------------------------------
AcquiredFor(r) ==
    relayer[r].vaaBytes \in AttestationService(WORMHOLE_CHAIN_ID_SEPOLIA,
                                               getEmitterAddressEth(IssuerAddress),
                                               relayer[r].events[relayer[r].idx])

C27_AcquisitionBeforeDelivery ==
    /\ [](\A r \in Relayers :
             /\ relayer[r].pc \in {"relaying", "confirming"} => AcquiredFor(r)
             /\ relayer[r].pc \in {"stopped", "idle", "fetching"} =>
                   relayer[r].vaaBytes = NoVaa)
    /\ [][ \A r \in Relayers :
             LET rs == relayer[r]
                 after == relayer'[r]
                 call == receiveAndVerifyVAA(DstState, wormhole, rs.vaaBytes)
                 ended == /\ after.pc \in {"idle", "fetching"}
                          /\ after.pc = "fetching" => after.idx > rs.idx
                          /\ rs.events[rs.idx] \notin after.currentlyProcessing
             IN  /\ (rs.pc = "relaying" /\ after # rs) =>
                       /\ UNCHANGED <<dstVars, last>>
                       /\ \/ after = [rs EXCEPT !.pc = "confirming", !.note = NoNote,
                                                !.ret = "none"]
                          \/ ended
                 /\ (rs.pc = "confirming" /\ after # rs) =>
                       /\ last' = [op |-> "receiveAndVerifyVAA", result |-> call.err]
                       /\ call.err = "ok" => /\ mirror' = call.st.mirror
                                             /\ dstLog' = call.st.log
                       /\ call.err # "ok" => UNCHANGED dstVars
                       /\ ended
                 /\ (rs.pc \notin {"confirming"} /\ after.pc = "confirming") =>
                       rs.pc = "relaying" ]_vars

\* a listener's transaction for sequence 1 is waiting to be mined, with the
\* bytes acquired for sequence 1, after its transaction for sequence 0 was
\* confirmed
C27_Witness ==
    \E r \in Relayers :
       /\ relayer[r].pc = "confirming"
       /\ relayer[r].events[relayer[r].idx] = toString(1)
       /\ relayer[r].vaaBytes.vm.sequence = 1
       /\ Mirrored(0)
       /\ Len(relayer[r].events) = 2

\* ------------------------------------------------------------------------
\* C28  After every poll whose scan completes without a provider error the
\* cursor equals the head the poll read at its start, whether or not it found
\* events and whether or not their processing succeeded; the next poll scans
\* only the blocks above that cursor.
\* ------------------------------------------------------------------------
\* the sequences announced in the blocks from .. to, in log order
AnnouncedIn(from, to) ==
    LET inRange(e) == IsDiscovery(e) /\ from <= e.block /\ e.block <= to
        found == SelectSeq(srcLog, inRange)
    IN  [i \in 1 .. Len(found) |-> toString(found[i].sequence)]

\* a step of the scan listener r is in: the head read and the events stay,
\* and the cursor moves to the head read when the scan ends
ScanStep(r) ==
    LET rs == relayer[r]
        after == relayer'[r]
    IN  (rs.pc \in {"fetching", "relaying", "confirming"} /\ after # rs) =>
           /\ after.latestBlock = rs.latestBlock \/ after.pc = "idle"
           /\ after.lastCheckedBlock =
                 (IF after.pc = "idle" THEN rs.latestBlock ELSE rs.lastCheckedBlock)
           /\ after.pc # "idle" => after.events = rs.events

\* C28 as stated: the cursor is the head read, whatever that head is
C28_AsStated ==
    [][ LET rs == relayer[Solo]
            after == relayer'[Solo]
        IN  /\ (rs.pc = "idle" /\ after # rs /\ after.note.message # "polling error") =>
                  \A reported \in 0 .. srcHead :
                     PollAt(Solo, reported) =>
                        LET found == AnnouncedIn(rs.lastCheckedBlock + 1, reported)
                        IN  IF found = <<>>
                            THEN /\ after.pc = "idle"
                                 /\ after.lastCheckedBlock = reported
                            ELSE /\ after.pc = "fetching"
                                 /\ after.events = found
                                 /\ after.latestBlock = reported
                                 /\ after.lastCheckedBlock = rs.lastCheckedBlock
            /\ ScanStep(Solo) ]_vars

\* C28 (cursor advance per poll): after every poll whose scan completes
\* without a provider error the cursor equals the head the poll read at its
\* start when that head is at or above the cursor, whether or not events were
\* found and whether or not their processing succeeded; a poll that read a
\* head below the cursor leaves the cursor where it was.  The next poll scans
\* only the blocks above the cursor.
C28_CursorAdvance ==
    [][ LET rs == relayer[Solo]
            after == relayer'[Solo]
        IN  /\ (rs.pc = "idle" /\ after # rs /\ after.note.message # "polling error") =>
                  \A reported \in 0 .. srcHead :
                     PollAt(Solo, reported) =>
                        LET found == AnnouncedIn(rs.lastCheckedBlock + 1, reported)
                        IN  IF reported < rs.lastCheckedBlock
                            THEN /\ after.pc = "idle"
                                 /\ after.lastCheckedBlock = rs.lastCheckedBlock
                            ELSE IF found = <<>>
                            THEN /\ after.pc = "idle"
                                 /\ after.lastCheckedBlock = reported
                            ELSE /\ after.pc = "fetching"
                                 /\ after.events = found
                                 /\ after.latestBlock = reported
                                 /\ after.lastCheckedBlock = rs.lastCheckedBlock
            /\ ScanStep(Solo) ]_vars

\* a scan that found one event and failed to acquire its attestation has
\* ended: the cursor is at the head read at its start, which is no longer the
\* newest block
C28_Witness ==
    /\ relayer[Solo].pc = "idle"
    /\ relayer[Solo].note = [seq |-> toString(0), message |-> "Failed to fetch VAA"]
    /\ relayer[Solo].lastCheckedBlock = 1
    /\ srcHead = 2
    /\ ~Mirrored(0)

\* ------------------------------------------------------------------------
\* C29  Within one listener no two processings of the same sequence are
\* active at once; a sequence is in currentlyProcessing exactly from the start
\* of its processing to its end, whatever way the processing ends; the set is
\* empty whenever no processing is active.
\* ------------------------------------------------------------------------
Active(rs) == rs.pc \in {"fetching", "relaying", "confirming"}

C29_InFlightGuard ==
    /\ [](\A r \in Relayers :
             /\ Active(relayer[r]) =>
                   /\ relayer[r].currentlyProcessing = {relayer[r].events[relayer[r].idx]}
                   /\ \A i, j \in 1 .. Len(relayer[r].events) :
                         relayer[r].events[i] = relayer[r].events[j] => i = j
             /\ ~Active(relayer[r]) => relayer[r].currentlyProcessing = {})
    /\ [][ \A r \in Relayers :
             LET rs == relayer[r]
                 after == relayer'[r]
             IN  /\ (~Active(rs) /\ Active(after)) =>
                       /\ after.idx = 1
                       /\ after.events[1] \notin rs.currentlyProcessing
                 /\ (Active(rs) /\ after # rs) =>
                       \/ /\ Active(after)
                          /\ after.idx = rs.idx
                          /\ after.events = rs.events
                          /\ after.currentlyProcessing = rs.currentlyProcessing
                       \/ /\ rs.events[rs.idx] \notin after.currentlyProcessing
                          /\ after.note.seq = rs.events[rs.idx]
                          /\ IF rs.idx < Len(rs.events)
                             THEN /\ after.pc = "fetching"
                                  /\ after.idx = rs.idx + 1
                                  /\ after.events = rs.events
                             ELSE after.pc = "idle" ]_vars

\* a listener gave up the acquisition for sequence 0 and is now processing
\* sequence 1 of the same scan: only sequence 1 is in flight
C29_Witness ==
    \E r \in Relayers :
       /\ relayer[r].pc = "fetching"
       /\ relayer[r].idx = 2
       /\ relayer[r].note = [seq |-> toString(0), message |-> "Failed to fetch VAA"]
       /\ relayer[r].currentlyProcessing = {toString(1)}

\* ------------------------------------------------------------------------
\* C30  Delivery does not depend on the order: attestations of distinct
\* sequences of the Issuer, verified and correctly sourced, all succeed in
\* whatever order they are submitted, and the Mirror's records and processed
\* digests are the same after either order.  The records of the Mirror are
\* those of the processed attestations, whatever the order they came in.
\* ------------------------------------------------------------------------
\* the attestations a submit of which succeeds now
Deliverable ==
    {vaa \in Vaas : ValidAndSourced(vaa) /\ keccak256(vaa) \notin mirror.processedVaas}

C30_OrderIndependence ==
    /\ \A a, b \in Deliverable :
          a.vm.sequence # b.vm.sequence =>
             LET first == receiveAndVerifyVAA(DstState, wormhole, a)
                 ab == receiveAndVerifyVAA(first.st, wormhole, b)
                 other == receiveAndVerifyVAA(DstState, wormhole, b)
                 ba == receiveAndVerifyVAA(other.st, wormhole, a)
             IN  /\ first.err = "ok" /\ ab.err = "ok"
                 /\ other.err = "ok" /\ ba.err = "ok"
                 /\ ab.st.mirror = ba.st.mirror
                 /\ ab.st.log = ba.st.log
                 /\ ab.st.mirror.processedVaas =
                       mirror.processedVaas \cup {keccak256(a), keccak256(b)}
    /\ \A h \in CidHashes :
          LET carriers == {dg \in mirror.processedVaas : dg[2].vm.payload[2] = h}
          IN  IF carriers = {}
              THEN mirror.cidIssuer[h] = ZeroAddress
              ELSE \A dg \in carriers : mirror.cidIssuer[h] = dg[2].vm.payload[1]

\* one attestation of sequence 0 and one of sequence 1 have been processed,
\* each leaving its event, and another attestation can still be delivered
C30_Witness ==
    /\ last = [op |-> "receiveAndVerifyVAA", result |-> "ok"]
    /\ \E a, b \in Vaas :
          /\ a.vm.sequence = 0 /\ b.vm.sequence = 1
          /\ mirror.processedVaas = {keccak256(a), keccak256(b)}
          /\ dstLog = SetToBag({[name |-> "CredentialReceived",
                                 originalIssuer |-> a.vm.payload[1],
                                 cidHash |-> a.vm.payload[2]],
                                [name |-> "CredentialReceived",
                                 originalIssuer |-> b.vm.payload[1],
                                 cidHash |-> b.vm.payload[2]]})
    /\ Deliverable # {}

\* ------------------------------------------------------------------------
\* C31  Every start of the listener, the first and those after it went down,
\* sets the cursor to the head of the source ledger at that moment.  An event
\* in a block at or below the cursor of a running listener is not among the
\* events it discovers, now or later, so it is neither acquired nor submitted;
\* a message that was announced while the listener was down and is not
\* mirrored stays unmirrored.
\* ------------------------------------------------------------------------
Running(r) == relayer[r].pc \notin {"stopped", "exited"}

\* the event of sequence seq is in a block up to b
AnnouncedUpTo(seq, b) ==
    \E k \in 1 .. Len(srcLog) :
       /\ IsDiscovery(srcLog[k])
       /\ srcLog[k].sequence = seq
       /\ srcLog[k].block <= b

\* sequence seq is among the events of the scan listener r is in
InScan(r, seq) ==
    /\ Running(r)
    /\ \E i \in 1 .. Len(relayer[r].events) : relayer[r].events[i] = toString(seq)

C31_StartAtHead ==
    /\ [][ (relayer[Solo].pc = "stopped" /\ Running(Solo)') =>
              /\ relayer'[Solo].pc = "idle"
              /\ relayer'[Solo].lastCheckedBlock = srcHead
              /\ relayer'[Solo].events = <<>>
              /\ relayer'[Solo].currentlyProcessing = {} ]_vars
    /\ \A seq \in 0 .. (Cardinality(Cids) - 1) :
          /\ [](InScan(Solo, seq) =>
                   ~AnnouncedUpTo(seq, relayer[Solo].lastCheckedBlock))
          /\ []((Running(Solo) /\ AnnouncedUpTo(seq, relayer[Solo].lastCheckedBlock))
                   => [](~InScan(Solo, seq)))
          /\ []((relayer[Solo].pc = "stopped" /\ AnnouncedUpTo(seq, srcHead)
                   /\ ~Mirrored(seq))
                   => [](~Mirrored(seq)))

\* sequence 0 was announced in block 1 and never mirrored; the listener,
\* started at or after block 1, is processing sequence 1 alone
C31_Witness ==
    /\ relayer[Solo].pc = "relaying"
    /\ relayer[Solo].events = <<toString(1)>>
    /\ AnnouncedUpTo(0, 1)
    /\ relayer[Solo].lastCheckedBlock = 1
    /\ ~Mirrored(0)
    /\ mirror.processedVaas = {}

\* ------------------------------------------------------------------------
\* C32  For every message (source chain, emitter, sequence) the Mirror accepts
\* at most one submit and emits at most one CredentialReceived, even when the
\* bridge verifies two byte-distinct attestations of the message.
\* ------------------------------------------------------------------------
\* the processed digests of the attestations that wrap message vm
DigestsOfMessage(vm) == {dg \in mirror.processedVaas : dg[2].vm = vm}

\* the number of CredentialReceived events of message vm
ReceivedOf(vm) ==
    CopiesIn([name |-> "CredentialReceived", originalIssuer |-> vm.payload[1],
              cidHash |-> vm.payload[2]], dstLog)

C32_OneSubmitPerMessage ==
    \A vm \in wormhole.published :
       /\ Cardinality(DigestsOfMessage(vm)) <= 1
       /\ ReceivedOf(vm) <= 1

\* both attestations of one message were accepted: two digests, two events
C32_Witness ==
    /\ last = [op |-> "receiveAndVerifyVAA", result |-> "ok"]
    /\ \E vm \in wormhole.published :
          /\ DigestsOfMessage(vm) = {keccak256([vm |-> vm, sig |-> sg]) : sg \in GoodSigs}
          /\ ReceivedOf(vm) = 2

\* what holds: the Mirror accepts each verified byte string of a message
\* once, so a message is accepted as often as it has processed attestations
\* (at most one per signature set), each time writing the same record
C32_OneSubmitPerAttestation ==
    \A vm \in wormhole.published :
       /\ ReceivedOf(vm) = Cardinality(DigestsOfMessage(vm))
       /\ Cardinality(DigestsOfMessage(vm)) <= Cardinality(GoodSigs)
       /\ DigestsOfMessage(vm) # {} => mirror.cidIssuer[vm.payload[2]] = vm.payload[1]

\* ------------------------------------------------------------------------
\* C33  One listener works sequentially: at most one poll cycle is active
\* and at most one sequence is being processed, so currentlyProcessing never
\* holds more than one sequence and its membership test never skips an
\* event; the events of a scan are processed in log order, each one ending
\* before the next begins; the next poll is scheduled only when the last
\* one has ended.
\* ------------------------------------------------------------------------
C33_SequentialProcessing ==
    /\ [](\A r \in Relayers :
             LET rs == relayer[r] IN
             /\ Cardinality(rs.currentlyProcessing) <= 1
             /\ rs.polls = (IF rs.pc = "idle" THEN 1 ELSE 0)
             /\ Active(rs) =>
                   /\ rs.idx \in 1 .. Len(rs.events)
                   /\ \A i, j \in 1 .. Len(rs.events) :
                         i < j => parseSequence(rs.events[i]) < parseSequence(rs.events[j]))
    /\ [][ \A r \in Relayers :
             LET rs == relayer[r]
                 after == relayer'[r]
             IN  /\ (after.pc = "fetching" /\ (rs.pc # "fetching" \/ after.idx # rs.idx)) =>
                       /\ after.idx = (IF Active(rs) THEN rs.idx + 1 ELSE 1)
                       /\ after.events[after.idx] \notin rs.currentlyProcessing
                       /\ after.currentlyProcessing = {after.events[after.idx]}
                       /\ after.attempt = 1
                       /\ Active(rs) => after.events = rs.events
                 /\ (Active(rs) /\ after.pc = "idle") =>
                       /\ rs.idx = Len(rs.events)
                       /\ rs.polls = 0
                       /\ after.polls = 1 ]_vars

\* a scan found two events: the first was delivered, the second is being
\* delivered, no poll is due
C33_Witness ==
    \E r \in Relayers :
       /\ relayer[r].pc = "confirming"
       /\ relayer[r].events = <<toString(0), toString(1)>>
       /\ relayer[r].idx = 2
       /\ relayer[r].polls = 0
       /\ relayer[r].currentlyProcessing = {toString(1)}
       /\ Mirrored(0)

\* ------------------------------------------------------------------------
\* C34  The scans of a running listener are contiguous and disjoint: each
\* covers exactly the blocks from the cursor + 1 to the head read in that
\* poll, and the cursor then moves to that head.  Every event announced
\* after the listener's start is returned by one scan, and by no other, and
\* its sequence is processed once.
\* ------------------------------------------------------------------------
C34_GaplessScanning ==
    /\ [](Active(relayer[Solo]) =>
             /\ relayer[Solo].lastCheckedBlock < relayer[Solo].latestBlock
             /\ relayer[Solo].events =
                   AnnouncedIn(relayer[Solo].lastCheckedBlock + 1,
                               relayer[Solo].latestBlock))
    /\ [][ /\ (relayer[Solo].pc = "idle" /\ Active(relayer'[Solo])) =>
                /\ relayer'[Solo].lastCheckedBlock = relayer[Solo].lastCheckedBlock
                /\ relayer'[Solo].latestBlock = srcHead
           /\ (Active(relayer[Solo]) /\ relayer'[Solo].pc = "idle") =>
                relayer'[Solo].lastCheckedBlock = relayer[Solo].latestBlock ]_vars
    /\ \A seq \in 0 .. (Cardinality(Cids) - 1) :
          /\ [](InScan(Solo, seq) => [](~InScan(Solo, seq) => [](~InScan(Solo, seq))))
          /\ [](Processing(Solo, seq) =>
                   [](~Processing(Solo, seq) => [](~Processing(Solo, seq))))
          /\ EmittedAfterStart(Solo, seq) ~> Processing(Solo, seq)

\* two scans, of block 1 and then of block 2, each returned one event, and
\* both sequences were delivered; the cursor is at block 2
C34_Witness ==
    /\ relayer[Solo].pc = "idle"
    /\ relayer[Solo].lastCheckedBlock = 2
    /\ AnnouncedUpTo(0, 1)
    /\ AnnouncedUpTo(1, 2) /\ ~AnnouncedUpTo(1, 1)
    /\ Mirrored(0) /\ Mirrored(1)

\* ------------------------------------------------------------------------
\* C35  The cursor of a running listener never decreases and never exceeds
\* the highest head the provider has reported; a poll that is answered with
\* a head not above the cursor (no new block, or a head lower than one
\* reported before) scans nothing and leaves the cursor where it was.
\* ------------------------------------------------------------------------
C35_CursorMonotone ==
    /\ [](Running(Solo) =>
             /\ relayer[Solo].lastCheckedBlock <= relayer[Solo].latestBlock
             /\ relayer[Solo].latestBlock <= srcHead
             /\ relayer[Solo].pc = "idle" =>
                   relayer[Solo].lastCheckedBlock = relayer[Solo].latestBlock)
    /\ [][ /\ Running(Solo) =>
                /\ relayer'[Solo].lastCheckedBlock >= relayer[Solo].lastCheckedBlock
                /\ relayer'[Solo].latestBlock >= relayer[Solo].latestBlock
           /\ (relayer[Solo].pc = "idle" /\ relayer'[Solo] # relayer[Solo]) =>
                \A reported \in 0 .. srcHead :
                   PollAt(Solo, reported) =>
                      IF reported <= relayer[Solo].lastCheckedBlock
                      THEN /\ relayer'[Solo] = [relayer[Solo] EXCEPT
                                                   !.note = NoNote, !.ret = "none"]
                           /\ UNCHANGED <<srcVars, dstVars, last>>
                      ELSE /\ relayer'[Solo].latestBlock = reported
                           /\ relayer'[Solo].lastCheckedBlock \in
                                 {relayer[Solo].lastCheckedBlock, reported} ]_vars

\* the listener, which had delivered a sequence, polled again with its
\* cursor at the newest block: the head it read was not above the cursor, it
\* scanned nothing and the cursor stayed
C35_Witness ==
    /\ relayer[Solo].pc = "idle"
    /\ relayer[Solo].note = NoNote
    /\ relayer[Solo].lastCheckedBlock = 2
    /\ srcHead = 2
    /\ \E seq \in 0 .. (Cardinality(Cids) - 1) : Mirrored(seq)

\* ------------------------------------------------------------------------
\* C36  The listener ends by itself only at start-up: when the first
\* getBlockNumber fails the process exits with an error and does nothing
\* more; once started, no failure of a poll, of an acquisition or of a
\* delivery ends it (it stops only when it is brought down), and after every
\* poll cycle, failed or not, exactly one next poll is due.
\* ------------------------------------------------------------------------
C36_TerminatesOnlyAtStart ==
    /\ [](\A r \in Relayers :
             /\ relayer[r].pc = "exited" =>
                   relayer[r] = [StoppedRelayer EXCEPT
                                    !.pc = "exited",
                                    !.note = [seq |-> NoSequence,
                                              message |-> "critical error"]]
             /\ Running(r) => relayer[r].polls = (IF relayer[r].pc = "idle" THEN 1 ELSE 0))
    /\ [][ \A r \in Relayers :
             /\ relayer[r].pc = "exited" => relayer'[r] = relayer[r]
             /\ relayer'[r].pc = "exited" => relayer[r].pc \in {"stopped", "exited"}
             /\ (Running(r) /\ ~Running(r)') => (r = Solo /\ Crash(Solo))
             /\ (Running(r) /\ relayer'[r] # relayer[r] /\ Running(r)'
                   /\ relayer'[r].note.message \in
                         {"polling error", "Failed to fetch VAA", "network error",
                          "transaction execution reverted", "VAA already processed"})
                => /\ relayer'[r].pc \in {"idle", "fetching"}
                   /\ relayer'[r].pc = "idle" => relayer'[r].polls = 1 ]_vars

\* the start-up of one listener failed and it exited; the other, started,
\* has just had a poll fail and its next poll is due
C36_Witness ==
    /\ \E r \in Relayers : relayer[r].pc = "exited"
    /\ relayer[Solo].pc = "idle"
    /\ relayer[Solo].note.message = "polling error"
    /\ relayer[Solo].polls = 1
    /\ relayer[Solo].lastCheckedBlock < srcHead

\* ------------------------------------------------------------------------
\* C37  Revocation on the source ledger frees neither the identifier nor its
\* content: revokeCredential leaves the issuer of the record and the mark of
\* its content hash as they were; afterwards issueCredential of the revoked
\* identifier fails with every content hash, and issueCredential of the
\* content hash issued with it fails with every identifier.
\* ------------------------------------------------------------------------
\* the content hashes that were issued with an identifier now revoked
RevokedContent ==
    {rec.contentHash : rec \in {x \in issuance : issuer.isRevoked[keccak256(x.cid)]}}

C37_RevocationKeepsRecord ==
    /\ [](\A cid \in Cids :
             issuer.isRevoked[keccak256(cid)] =>
                /\ issuer.cidIssuer[keccak256(cid)] # ZeroAddress
                /\ \E rec \in issuance :
                      /\ rec.cid = cid
                      /\ rec.issuer = issuer.cidIssuer[keccak256(cid)]
                      /\ issuer.contentHashIssued[rec.contentHash])
    /\ [][ /\ last'.op = "Issuer.revokeCredential" =>
                /\ issuer'.cidIssuer = issuer.cidIssuer
                /\ issuer'.contentHashIssued = issuer.contentHashIssued
                /\ issuance' = issuance
                /\ wormhole' = wormhole
           /\ last'.op = "issueCredential" =>
                \A sender \in Callers, cid \in Cids, contentHash \in ContentHashes,
                   value \in Values :
                   (/\ IssueCredential(sender, cid, contentHash, value)
                    /\ \/ issuer.isRevoked[keccak256(cid)]
                       \/ contentHash \in RevokedContent)
                   => /\ last'.result # "ok"
                      /\ UNCHANGED srcVars
           /\ last'.op = "batchIssueCredentials" =>
                \A sender \in Callers, b \in BatchCalls :
                   (/\ BatchIssueCredentials(sender, b[1], b[2], b[3])
                    /\ \E i \in 1 .. Len(b[1]) :
                          /\ i <= Len(b[2])
                          /\ \/ issuer.isRevoked[keccak256(b[1][i])]
                             \/ b[2][i] \in RevokedContent)
                   => /\ last'.result # "ok"
                      /\ UNCHANGED srcVars ]_vars

\* the one record was revoked, and an issueCredential with its content hash
\* was refused after that
C37_Witness ==
    /\ last = [op |-> "issueCredential", result |-> DuplicateContent]
    /\ Cardinality(issuance) = 1
    /\ \E rec \in issuance : issuer.isRevoked[keccak256(rec.cid)]
    /\ RevokedContent # {}

\* ------------------------------------------------------------------------
\* C38
\* ------------------------------------------------------------------------

\* the ledger behind each button
LedgerOf(network) == IF network = "ethereum" THEN issuer ELSE mirror

\* the ledger holds a record for the identifier's hash and has not revoked it
ValidOn(network, cid) ==
    /\ LedgerOf(network).cidIssuer[keccak256(cid)] # ZeroAddress
    /\ ~LedgerOf(network).isRevoked[keccak256(cid)]

\* this step ends the check that was running
CheckEnds == verifier.pc # "done" /\ verifier'.pc = "done"

\* C38 as it is stated: whenever an on-chain check ends with every call it
\* made answered, it has succeeded if and only if the selected ledger holds a
\* record for the identifier's hash and that ledger's revoked flag for it is
\* false.
C38_AsStated ==
    [][CheckEnds /\ verifier'.result # "call rejected" =>
          (verifier'.result = "ok" <=> ValidOn(verifier.network, verifier.cid))]_vars

\* C38: verification is decided per ledger.  A check succeeds only if the
\* selected ledger holds a record for the identifier's hash and that ledger's
\* revoked flag is false, and it returns the issuer that ledger records.  With
\* the wallet on the selected ledger's chain and every call answered, the
\* check ends with success exactly when that holds, with "not recorded"
\* exactly when the ledger has no record, and with "revoked" exactly when the
\* ledger has a record and its flag is set; the other ledger is never read.
\* With the wallet on another chain the check ends with "Wrong Network"
\* whatever the selected ledger holds.
C38_PerLedgerVerification ==
    [][/\ \A chainId \in ChainIds :
             GetNetwork(chainId) =>
                IF chainId = getTargetNetworkId(verifier.network)
                THEN /\ verifier'.pc = "cidIssuer"
                     /\ verifier'.contract.address =
                           (IF verifier.network = "ethereum"
                            THEN IssuerAddress ELSE MirrorAddress)
                ELSE verifier'.pc = "done" /\ verifier'.result = "Wrong Network"
       /\ CheckEnds =>
             LET cidHash == keccak256(verifier.cid)
                 ledger == LedgerOf(verifier.network)
                 result == verifier'.result
             IN  /\ result = "ok" =>
                       /\ ValidOn(verifier.network, verifier.cid)
                       /\ verifier'.issuerAddress = ledger.cidIssuer[cidHash]
                 /\ result \notin {"Wrong Network", "call rejected"} =>
                       /\ result = "ok" <=> ValidOn(verifier.network, verifier.cid)
                       /\ result = "This CID is not recorded on the blockchain."
                             <=> ledger.cidIssuer[cidHash] = ZeroAddress
                       /\ result = "This credential has been revoked."
                             <=> /\ ledger.cidIssuer[cidHash] # ZeroAddress
                                 /\ ledger.isRevoked[cidHash]
                 /\ result = "Wrong Network" => verifier.pc = "getNetwork"]_vars

\* a credential revoked on the source ledger was then delivered to the
\* destination ledger, where the check for it has succeeded: the source
\* ledger's flag is set, the destination's is not
C38_Witness ==
    /\ verifier.pc = "done"
    /\ verifier.result = "ok"
    /\ verifier.network = "polygon"
    /\ issuer.isRevoked[keccak256(verifier.cid)]
    /\ ~mirror.isRevoked[keccak256(verifier.cid)]
    /\ last.op = "receiveAndVerifyVAA"
    /\ last.result = "ok"
    /\ \A cid \in Cids \ {verifier.cid} : mirror.cidIssuer[keccak256(cid)] = ZeroAddress

====
